---- MODULE Spec2Model ----
(***************************************************************************)
(* Verification model of ContainerIRQTool (mrVectorz/ContainerIRQTool):    *)
(* the CPU range codec of shared_data.py, the IRQ violation engine of      *)
(* irq_analyzer.py, the LLC and NUMA alignment engines of llc_analyzer.py  *)
(* and numa_analyzer.py, and the container registry, topology providers    *)
(* and caches of shared_data.py.                                           *)
(*                                                                         *)
(* Python strings are sequences of one-character strings, so that          *)
(* split/strip/int/isdigit/str are computed character by character.  A     *)
(* call that can raise returns a record [exc, val]: exc = "" on a normal   *)
(* return and the exception's name otherwise.                              *)
(***************************************************************************)
EXTENDS Integers, Sequences, FiniteSets, TLC

VARIABLES
    \* ---- CPU range codec (shared_data.py) ----
    codec_pc,        \* "idle" | "list" | "formatted" | "input" | "parsed"
    cpu_list,        \* argument of format_cpu_list_range
    tokens,          \* the tokens a well-formed input string was written from
    cpu_range_str,   \* argument of parse_cpu_range
    parse_result     \* what parse_cpu_range returned or raised

codecVars == <<codec_pc, cpu_list, tokens, cpu_range_str, parse_result>>

VARIABLES
    \* ---- interrupt rate and severity (irq_analyzer.py) ----
    sev_pc,               \* "idle" | "input" | "rate" | "colored"
    uptime_file,          \* the snapshot's uptime file
    interrupt_count,      \* argument of calculate_interrupts_per_hour
    interrupts_per_hour,  \* its result: a float or None
    color_name            \* second component of get_irq_color_code's result

sevVars == <<sev_pc, uptime_file, interrupt_count, interrupts_per_hour, color_name>>

VARIABLES
    \* ---- IRQ violation engine (irq_analyzer.py) ----
    irq_pc,             \* "idle" | "input" | "mapped" | "counted" | "analyzed" | "summarized"
    irq_base_dir,       \* the IRQ directory: its listing and the affinity files
    interrupts_table,   \* the rows the interrupt table file was written from
    interrupts_file,    \* <base_dir>/proc/interrupts
    irq_uptime_file,    \* <base_dir>/uptime
    isolated_cpus,      \* argument of analyze_irq_violations
    irq_to_cpus,        \* result of build_irq_to_cpu_mapping
    irq_stats,          \* result of parse_proc_interrupts
    irq_results         \* result of analyze_irq_violations

irqVars == <<irq_pc, irq_base_dir, interrupts_table, interrupts_file, irq_uptime_file,
             isolated_cpus, irq_to_cpus, irq_stats, irq_results>>

VARIABLES
    \* ---- LLC alignment engine (llc_analyzer.py) ----
    llc_pc,             \* "idle" | "input" | "checked"
    container_cpus,     \* argument of check_llc_alignment
    llc_topology,       \* argument: LLC node -> its CPUs
    cpu_to_llc,         \* argument: CPU -> its LLC node
    alignment_results   \* result of check_llc_alignment

llcVars == <<llc_pc, container_cpus, llc_topology, cpu_to_llc, alignment_results>>

VARIABLES
    \* ---- NUMA alignment engine (numa_analyzer.py) ----
    numa_pc,             \* "idle" | "input" | "checked"
    numa_container_cpus, \* argument container_cpus of check_numa_alignment
    pci_devices,         \* argument: the container's PCI addresses
    numa_topology,       \* argument: NUMA node -> its CPUs
    pci_numa_files,      \* PCI address -> the device's numa_node attribute file
    numa_results         \* result of check_numa_alignment

numaVars == <<numa_pc, numa_container_cpus, pci_devices, numa_topology, pci_numa_files,
              numa_results>>

VARIABLES
    \* ---- extract_pci_devices_from_container (shared_data.py) ----
    pci_pc,              \* "idle" | "input" | "extracted"
    pci_container,       \* argument container_data: a decoded inspection record
    pci_result           \* result of extract_pci_devices_from_container

pciVars == <<pci_pc, pci_container, pci_result>>

VARIABLES
    \* ---- the shared data module and its caches (shared_data.py) ----
    fs,                  \* the filesystem: the tree under each source's root
    container_cache,     \* _container_cache: base_dir -> containers
    numa_topology_cache, \* _numa_topology_cache: cache key -> NUMA topology
    llc_topology_cache,  \* _llc_topology_cache: cache key -> LLC topology
    cache_initialized,   \* _cache_initialized
    data_call,           \* the last call: function, base_dir, result, filesystem use
    data_first           \* (function, base_dir) -> result of the first call since
                         \* the caches were last cleared

dataVars == <<fs, container_cache, numa_topology_cache, llc_topology_cache,
              cache_initialized, data_call, data_first>>

VARIABLES
    \* ---- get_pci_numa_info_from_lspci (numa_analyzer.py) ----
    lspci_pc,            \* "idle" | "input" | "scanned"
    lspci_blocks,        \* the device blocks the listing was written from
    lspci_file,          \* <base_dir>/sos_commands/pci/lspci_-nnvv
    pci_address,         \* argument of get_pci_numa_info_from_lspci
    lspci_numa_node      \* its result: a node or None

lspciVars == <<lspci_pc, lspci_blocks, lspci_file, pci_address, lspci_numa_node>>

VARIABLES
    \* ---- the container analyses and summaries (numa_analyzer.py, llc_analyzer.py) ----
    analysis_pc,         \* "idle" | "input" | "analyzed"
    analysis_run,        \* "none" | "container" | "numa" | "llc": the function called
    analysis_live,       \* base_dir is None: the live host
    analysis_dir,        \* the containers directory: the inspection records
    analysis_source,     \* the namespace listing, or the outcome of "ip netns exec"
    analysis_topology,   \* the NUMA topology, or <<llc_topology, cpu_to_llc>>
    analysis_pci_files,  \* PCI address -> the device's numa_node attribute file
    analysis_results     \* what the function returned or raised

analysisVars == <<analysis_pc, analysis_run, analysis_live, analysis_dir, analysis_source,
                  analysis_topology, analysis_pci_files, analysis_results>>

VARIABLES
    \* ---- the summary of the IRQ report (irq_analyzer.py, main) ----
    irq_summary          \* the totals main prints, or none before the summary is made

summaryVars == <<irq_summary>>

vars == <<codecVars, sevVars, irqVars, llcVars, numaVars, pciVars, dataVars, lspciVars, analysisVars,
          summaryVars>>

\* what an operation of one component leaves alone: the other components
notCodec == <<sevVars, irqVars, llcVars, numaVars, pciVars, dataVars, lspciVars, analysisVars,
    summaryVars>>

notSev == <<codecVars, irqVars, llcVars, numaVars, pciVars, dataVars, lspciVars, analysisVars,
    summaryVars>>

notIrq == <<codecVars, sevVars, llcVars, numaVars, pciVars, dataVars, lspciVars, analysisVars,
    summaryVars>>

notLlc == <<codecVars, sevVars, irqVars, numaVars, pciVars, dataVars, lspciVars, analysisVars,
    summaryVars>>

notNuma == <<codecVars, sevVars, irqVars, llcVars, pciVars, dataVars, lspciVars, analysisVars,
    summaryVars>>

notPci == <<codecVars, sevVars, irqVars, llcVars, numaVars, dataVars, lspciVars, analysisVars,
    summaryVars>>

notData == <<codecVars, sevVars, irqVars, llcVars, numaVars, pciVars, lspciVars,
            analysisVars,
    summaryVars>>

notLspci == <<codecVars, sevVars, irqVars, llcVars, numaVars, pciVars, dataVars,
             analysisVars,
    summaryVars>>

\* what the summary of main leaves alone: all but irq_pc and irq_summary
notMain == <<codecVars, sevVars, llcVars, numaVars, pciVars, dataVars, lspciVars, analysisVars>>

notAnalysis == <<codecVars, sevVars, irqVars, llcVars, numaVars, pciVars, dataVars,
                lspciVars,
    summaryVars>>

(***************************************************************************)
(* Bounds of the model.                                                    *)
(***************************************************************************)
MaxCpu == 9          \* CPU sets given to format_cpu_list_range are subsets of 0..MaxCpu
MaxLen == 4          \* longest arbitrary input string of parse_cpu_range
MaxTokens == 2       \* most tokens of a generated well-formed CPU list string
MaxHours == 0        \* uptimes are 0:00 .. MaxHours:59
MaxCountStep == 11   \* interrupt counts are 0, 1 and 50, 100, .. 50 * MaxCountStep
MaxIrqs == 3         \* IRQ directories are named 5 .. 4 + MaxIrqs
MaxIsolated == 2     \* longest list of isolated CPUs
MaxCpuCols == 2      \* most CPU columns of the interrupt table
MaxLlc == 9          \* most LLC nodes of a topology: nodes are numbered 0 .. MaxLlc - 1
MaxContainerCpus == 3   \* longest list of container CPUs
MaxEnv == 3          \* most environment variables of a container
MaxFiles == 2        \* most entries of a containers directory
MaxSteps == 4        \* most steps of the shared data module in a behaviour
MaxNodeDirs == 2     \* most node directories of a topology input
MaxBlocks == 2       \* most CPU blocks of a proc/cpuinfo table
MaxCpuDirs == 3      \* most cpu directories of a topology input
MaxDevices == 2      \* most device blocks of a PCI listing
MaxContainers == 2   \* most entries of an analysed containers directory

(***************************************************************************)
(* Python built-ins, on sequences of characters.                           *)
(***************************************************************************)
Digits == <<"0", "1", "2", "3", "4", "5", "6", "7", "8", "9">>

DigitSet == {Digits[i] : i \in 1..10}

Whitespace == {" ", "\t", "\n"}

DigitVal(c) == (CHOOSE i \in 1..10 : Digits[i] = c) - 1

Ok(v) == [exc |-> "", val |-> v]

Raise(e) == [exc |-> e, val |-> <<>>]

Contains(s, c) == \E i \in 1..Len(s) : s[i] = c

RECURSIVE SplitFrom(_, _, _, _)
SplitFrom(s, sep, i, cur) ==
    IF i > Len(s) THEN <<cur>>
    ELSE IF s[i] = sep THEN <<cur>> \o SplitFrom(s, sep, i + 1, <<>>)
    ELSE SplitFrom(s, sep, i + 1, Append(cur, s[i]))

\* str.split(sep)
Split(s, sep) == SplitFrom(s, sep, 1, <<>>)

RECURSIVE LStrip(_)
LStrip(s) == IF s # <<>> /\ Head(s) \in Whitespace THEN LStrip(Tail(s)) ELSE s

RECURSIVE RStrip(_)
RStrip(s) ==
    IF s # <<>> /\ s[Len(s)] \in Whitespace THEN RStrip(SubSeq(s, 1, Len(s) - 1)) ELSE s

\* str.strip()
Strip(s) == RStrip(LStrip(s))

\* str.isdigit()
IsDigit(s) == s # <<>> /\ \A i \in 1..Len(s) : s[i] \in DigitSet

RECURSIVE DigitsValue(_, _)
DigitsValue(s, acc) ==
    IF s = <<>> THEN acc
    ELSE IF Head(s) = "_" THEN DigitsValue(Tail(s), acc)
    ELSE DigitsValue(Tail(s), 10 * acc + DigitVal(Head(s)))

\* the digit part of an int() literal: digits, single underscores between them
IsIntBody(s) ==
    /\ s # <<>>
    /\ \A i \in 1..Len(s) : s[i] \in DigitSet \cup {"_"}
    /\ s[1] # "_" /\ s[Len(s)] # "_"
    /\ \A i \in 1..(Len(s) - 1) : ~(s[i] = "_" /\ s[i + 1] = "_")

\* int(s) of a string, base 10
PyInt(s) ==
    LET t == Strip(s)
        signed == t # <<>> /\ t[1] \in {"+", "-"}
        body == IF signed THEN Tail(t) ELSE t
    IN  IF ~IsIntBody(body) THEN Raise("ValueError")
        ELSE IF signed /\ t[1] = "-" THEN Ok(0 - DigitsValue(body, 0))
        ELSE Ok(DigitsValue(body, 0))

RECURSIVE IntToStr(_)
\* str(n) of an integer
IntToStr(n) ==
    IF n < 0 THEN <<"-">> \o IntToStr(0 - n)
    ELSE IF n < 10 THEN <<Digits[n + 1]>>
    ELSE IntToStr(n \div 10) \o <<Digits[(n % 10) + 1]>>

RECURSIVE Join(_, _)
\* sep.join(parts)
Join(sep, parts) ==
    IF parts = <<>> THEN <<>>
    ELSE IF Len(parts) = 1 THEN parts[1]
    ELSE parts[1] \o sep \o Join(sep, Tail(parts))

RECURSIVE PyRange(_, _, _)
\* list(range(start, stop, step)), step > 0
PyRange(start, stop, step) ==
    IF start >= stop THEN <<>> ELSE <<start>> \o PyRange(start + step, stop, step)

RECURSIVE InsertSorted(_, _)
InsertSorted(x, s) ==
    IF s = <<>> THEN <<x>>
    ELSE IF x <= Head(s) THEN <<x>> \o s
    ELSE <<Head(s)>> \o InsertSorted(x, Tail(s))

RECURSIVE Sorted(_)
\* sorted(list)
Sorted(s) == IF s = <<>> THEN <<>> ELSE InsertSorted(Head(s), Sorted(Tail(s)))

RECURSIVE MapStr(_)
MapStr(ns) == IF ns = <<>> THEN <<>> ELSE <<IntToStr(Head(ns))>> \o MapStr(Tail(ns))

Range(s) == {s[i] : i \in 1..Len(s)}

(***************************************************************************)
(* parse_cpu_range (shared_data.py)                                        *)
(***************************************************************************)
\* ParsePart with range(start, end) in place of range(start, end + 1)
ParsePart_ExclusiveEnd(rawpart) ==
    LET part == Strip(rawpart) IN
    IF Contains(part, "-") THEN
        LET sub == Split(part, "-") IN
        IF Len(sub) # 2 THEN Raise("ValueError")
        ELSE LET start == PyInt(sub[1])
                 end == PyInt(sub[2])
             IN  IF start.exc # "" THEN start
                 ELSE IF end.exc # "" THEN end
                 ELSE Ok(PyRange(start.val, end.val, 1))
    ELSE IF IsDigit(part) THEN Ok(<<PyInt(part).val>>)
    ELSE Ok(<<>>)

\* one iteration of the loop over cpu_range_str.split(','): the CPUs the part adds
ParsePart(rawpart) ==
    LET part == Strip(rawpart) IN
    IF Contains(part, "-") THEN
        LET sub == Split(part, "-") IN
        IF Len(sub) # 2 THEN Raise("ValueError")
        ELSE LET start == PyInt(sub[1])
                 end == PyInt(sub[2])
             IN  IF start.exc # "" THEN start
                 ELSE IF end.exc # "" THEN end
                 ELSE Ok(PyRange(start.val, end.val + 1, 1))
    ELSE IF IsDigit(part) THEN Ok(<<PyInt(part).val>>)
    ELSE Ok(<<>>)

RECURSIVE ParseParts(_, _)
ParseParts(parts, cpus) ==
    IF parts = <<>> THEN Ok(cpus)
    ELSE LET r == ParsePart(Head(parts)) IN
         IF r.exc # "" THEN r ELSE ParseParts(Tail(parts), cpus \o r.val)

StrNull == <<"n", "u", "l", "l">>

StrEmpty == <<"e", "m", "p", "t", "y">>

parse_cpu_range(s) ==
    IF s = <<>> \/ s \in {StrNull, StrEmpty, <<>>} THEN Ok(<<>>)
    ELSE ParseParts(Split(s, ","), <<>>)

(***************************************************************************)
(* format_cpu_list_range (shared_data.py)                                  *)
(***************************************************************************)
RECURSIVE RunEnd(_, _, _)
\* the inner while: the index where the sequence starting at i ends
RunEnd(l, i, step) ==
    IF i + 1 <= Len(l) /\ l[i + 1] = l[i] + step THEN RunEnd(l, i + 1, step) ELSE i

\* the look-ahead: the step of the pattern starting at index i
DetectStep(l, i) ==
    IF i + 2 <= Len(l) /\ l[i + 2] - l[i + 1] = l[i + 1] - l[i]
    THEN l[i + 1] - l[i]
    ELSE 1

StrEven == <<":", "2", " ", "(", "e", "v", "e", "n", ")">>

StrOdd == <<":", "2", " ", "(", "o", "d", "d", ")">>

\* "Format the range": the text of one run start..end with the given step
FormatRun(start, end, step) ==
    IF start = end THEN IntToStr(start)
    ELSE IF step = 1 THEN IntToStr(start) \o <<"-">> \o IntToStr(end)
    ELSE IF end - start >= step * 3 THEN
        IF step = 2 /\ start % 2 = 0
        THEN IntToStr(start) \o <<"-">> \o IntToStr(end) \o StrEven
        ELSE IF step = 2 /\ start % 2 = 1
        THEN IntToStr(start) \o <<"-">> \o IntToStr(end) \o StrOdd
        ELSE IntToStr(start) \o <<"-">> \o IntToStr(end) \o <<":">> \o IntToStr(step)
    ELSE Join(<<",">>, MapStr(PyRange(start, end + 1, step)))

RECURSIVE FormatRanges(_, _, _)
\* the outer while over the sorted list, from index i
FormatRanges(l, i, ranges) ==
    IF i > Len(l) THEN ranges
    ELSE LET step == DetectStep(l, i)
             j == RunEnd(l, i, step)
         IN  FormatRanges(l, j + 1, Append(ranges, FormatRun(l[i], l[j], step)))

format_cpu_list_range(list) ==
    IF list = <<>> THEN <<>>
    ELSE LET l == Sorted(list) IN
         IF Len(l) = 1 THEN IntToStr(l[1])
         ELSE Join(<<",">>, FormatRanges(l, 1, <<>>))

(***************************************************************************)
(* Inputs of the codec.                                                    *)
(***************************************************************************)
RECURSIVE SetToSeq(_)
\* a list holding the elements of S, in descending order
SetToSeq(S) ==
    IF S = {} THEN <<>>
    ELSE LET m == CHOOSE x \in S : \A y \in S : y <= x
         IN  <<m>> \o SetToSeq(S \ {m})

CpuLists == {SetToSeq(S) : S \in SUBSET (0..MaxCpu)}

Alphabet == {"0", "1", "3", ",", "-", " ", ":", "x"}

InputStrings ==
    UNION {[1..n -> Alphabet] : n \in 0..MaxLen} \cup {StrNull, StrEmpty}

\* the CPU numbers a generated token may name
TokenCpus == {0, 3, 8, 20}

\* a token is a bare integer (lo = hi, range = FALSE) or a range lo-hi
Tokens ==
    {[range |-> FALSE, lo |-> c, hi |-> c] : c \in TokenCpus}
    \cup {[range |-> TRUE, lo |-> a, hi |-> b] : a \in TokenCpus, b \in TokenCpus}

ExampleTokens ==
    << [range |-> TRUE, lo |-> 0, hi |-> 3],
       [range |-> FALSE, lo |-> 8, hi |-> 8],
       [range |-> TRUE, lo |-> 16, hi |-> 20] >>

TokenLists == UNION {[1..n -> Tokens] : n \in 1..MaxTokens} \cup {ExampleTokens}

\* whitespace written around every token: none, before, after, both
Paddings == {<<0, 0>>, <<1, 0>>, <<0, 1>>, <<1, 1>>}

Spaces(n) == [i \in 1..n |-> " "]

TokenText(t, pad) ==
    Spaces(pad[1])
    \o (IF t.range THEN IntToStr(t.lo) \o <<"-">> \o IntToStr(t.hi) ELSE IntToStr(t.lo))
    \o Spaces(pad[2])

RECURSIVE TokenTexts(_, _)
TokenTexts(ts, pad) ==
    IF ts = <<>> THEN <<>> ELSE <<TokenText(Head(ts), pad)>> \o TokenTexts(Tail(ts), pad)

\* the CPU list string that spells the tokens
WriteTokens(ts, pad) == Join(<<",">>, TokenTexts(ts, pad))

\* the CPUs the tokens denote
TokenCpuSet(ts) == UNION {{c \in (ts[i].lo)..(ts[i].hi) : TRUE} : i \in 1..Len(ts)}

NoResult == [exc |-> "none", val |-> <<>>]

(***************************************************************************)
(* The codec as a state machine: an input is drawn, format and parse act.  *)
(***************************************************************************)
CodecIdle ==
    /\ codec_pc = "idle" /\ cpu_list = <<>> /\ tokens = <<>>
    /\ cpu_range_str = <<>> /\ parse_result = NoResult

CodecInit ==
    /\ parse_result = NoResult
    /\ \/ /\ codec_pc = "list"
          /\ cpu_list \in CpuLists
          /\ tokens = <<>>
          /\ cpu_range_str = <<>>
       \/ /\ codec_pc = "input"
          /\ cpu_list = <<>>
          /\ tokens = <<>>
          /\ cpu_range_str \in InputStrings
       \/ /\ codec_pc = "input"
          /\ cpu_list = <<>>
          /\ tokens \in TokenLists
          /\ \E pad \in Paddings : cpu_range_str = WriteTokens(tokens, pad)

\* format_cpu_list_range(cpu_list)
Format ==
    /\ codec_pc = "list"
    /\ cpu_range_str' = format_cpu_list_range(cpu_list)
    /\ codec_pc' = "formatted"
    /\ UNCHANGED <<cpu_list, tokens, parse_result>>
    /\ UNCHANGED notCodec

\* parse_cpu_range(cpu_range_str)
Parse ==
    /\ codec_pc \in {"formatted", "input"}
    /\ parse_result' = parse_cpu_range(cpu_range_str)
    /\ codec_pc' = IF codec_pc = "formatted" THEN "roundtrip" ELSE "parsed"
    /\ UNCHANGED <<cpu_list, tokens, cpu_range_str>>
    /\ UNCHANGED notCodec

CodecNext == Format \/ Parse

(***************************************************************************)
(* Claims about the CPU range codec.                                       *)
(***************************************************************************)
\* C1: for every set S of CPU numbers, parse_cpu_range(format_cpu_list_range(S))
\* returns exactly the elements of S, for contiguous and for strided inputs.
C1_RoundTrip ==
    codec_pc = "roundtrip" =>
        /\ parse_result.exc = ""
        /\ Range(parse_result.val) = Range(cpu_list)

\* a token that is a bare non-negative integer
IsBareInteger(t) == IsDigit(t)

\* a token that is a start-end pair of non-negative integers
IsRangePair(t) ==
    LET sub == Split(t, "-")
    IN  Len(sub) = 2 /\ IsDigit(Strip(sub[1])) /\ IsDigit(Strip(sub[2]))

\* the CPUs a token of the claim's two well-formed shapes denotes
WellFormedCpus(t) ==
    IF IsBareInteger(t) THEN {DigitsValue(t, 0)}
    ELSE IF IsRangePair(t)
    THEN DigitsValue(Strip(Split(t, "-")[1]), 0)..DigitsValue(Strip(Split(t, "-")[2]), 0)
    ELSE {}

\* the union of what the well-formed tokens of the string denote
TolerantCpus(s) ==
    IF s \in {<<>>, StrNull, StrEmpty} THEN {}
    ELSE LET parts == Split(s, ",")
         IN  UNION {WellFormedCpus(Strip(parts[i])) : i \in 1..Len(parts)}

\* C2: for every input string parse_cpu_range returns without raising; a
\* malformed token contributes nothing and the well-formed tokens of the same
\* string still contribute their CPUs.
C2_MalformedSkipped ==
    codec_pc = "parsed" =>
        /\ parse_result.exc = ""
        /\ Range(parse_result.val) = TolerantCpus(cpu_range_str)

\* C3: a well-formed CPU list string parses to the union of its bare integers
\* and inclusive ranges, whitespace around tokens ignored; a range with
\* end < start adds nothing; '', 'null' and 'empty' give the empty list; and
\* '0-3,8,16-20' gives {0,1,2,3,8,16,17,18,19,20}.
C3_WellFormedParse ==
    codec_pc = "parsed" =>
        /\ tokens # <<>> =>
              /\ parse_result.exc = ""
              /\ Range(parse_result.val) = TokenCpuSet(tokens)
        /\ cpu_range_str \in {<<>>, StrNull, StrEmpty} => parse_result = Ok(<<>>)
        /\ cpu_range_str = WriteTokens(ExampleTokens, <<0, 0>>) =>
              Range(parse_result.val) = {0, 1, 2, 3, 8, 16, 17, 18, 19, 20}

C3_Witness ==
    /\ codec_pc = "parsed"
    /\ tokens = ExampleTokens
    /\ cpu_range_str = WriteTokens(ExampleTokens, <<1, 1>>)
    /\ Range(parse_result.val) = {0, 1, 2, 3, 8, 16, 17, 18, 19, 20}



(***************************************************************************)
(* Python floats.  A float is IEEE-754 binary64: zero, or m * 2^e with a   *)
(* 53-bit significand m kept as two limbs m = hi * 2^28 + lo, so that      *)
(* every intermediate value fits a 32-bit integer.  Division rounds to     *)
(* nearest, ties to even, as the hardware does.                            *)
(***************************************************************************)
Limb == 268435456            \* 2^28

TopBit == 16777216           \* 2^24: hi of a normalised significand is in TopBit..2*TopBit-1

None == [none |-> TRUE, hi |-> 0, lo |-> 0, e |-> 0]

Float(hi, lo, e) == [none |-> FALSE, hi |-> hi, lo |-> lo, e |-> e]

FloatZero == Float(0, 0, 0)

IsZero(x) == x.hi = 0 /\ x.lo = 0

\* two-limb naturals <<hi, lo>>
Dbl(x) == <<2 * x[1] + ((2 * x[2]) \div Limb), (2 * x[2]) % Limb>>

Geq(x, y) == x[1] > y[1] \/ (x[1] = y[1] /\ x[2] >= y[2])

Sub(x, y) ==
    IF x[2] >= y[2] THEN <<x[1] - y[1], x[2] - y[2]>>
    ELSE <<x[1] - y[1] - 1, x[2] + Limb - y[2]>>

Inc(x) == IF x[2] + 1 = Limb THEN <<x[1] + 1, 0>> ELSE <<x[1], x[2] + 1>>

IsOdd(x) == x[2] % 2 = 1

RECURSIVE Normalise(_, _)
Normalise(m, e) == IF m[1] >= TopBit THEN Float(m[1], m[2], e) ELSE Normalise(Dbl(m), e - 1)

\* float(n) of an integer 0 <= n < 2^28
IntToFloat(n) == IF n = 0 THEN FloatZero ELSE Normalise(<<0, n>>, 0)

\* one step of restoring division on <<quotient, remainder>>: one more quotient bit
DivStep(qr, d) ==
    LET r2 == Dbl(qr[2]) IN
    IF Geq(r2, d) THEN <<Inc(Dbl(qr[1])), Sub(r2, d)>> ELSE <<Dbl(qr[1]), r2>>

RECURSIVE DivBits(_, _)
\* restoring division by d from <<quotient, remainder>>, until the quotient has 53 bits
DivBits(qr, d) == IF qr[1][1] >= TopBit THEN qr ELSE DivBits(DivStep(qr, d), d)

\* a / b of two floats, b # 0
FloatDiv(a, b) ==
    IF IsZero(a) THEN FloatZero
    ELSE LET ma == <<a.hi, a.lo>>
             mb == <<b.hi, b.lo>>
             big == Geq(ma, mb)
             qr == IF big THEN DivBits(<<(<<0, 1>>), Sub(ma, mb)>>, mb)
                   ELSE DivBits(<<(<<0, 0>>), ma>>, mb)
             e == IF big THEN a.e - b.e - 52 ELSE a.e - b.e - 53
             q == qr[1]
             twice == Dbl(qr[2])
             up == IF twice = mb THEN IsOdd(q) ELSE Geq(twice, mb)
             qq == IF up THEN Inc(q) ELSE q
         IN  IF qq[1] = 2 * TopBit THEN Float(TopBit, 0, e + 1) ELSE Float(qq[1], qq[2], e)

\* a < b of two non-negative floats
FloatLess(a, b) ==
    IF IsZero(b) THEN FALSE
    ELSE IF IsZero(a) THEN TRUE
    ELSE \/ a.e < b.e
         \/ a.e = b.e /\ ~Geq(<<a.hi, a.lo>>, <<b.hi, b.lo>>)

(***************************************************************************)
(* Uptime, interrupt rate and severity colour (irq_analyzer.py)            *)
(***************************************************************************)
NoInt == [none |-> TRUE, v |-> 0]

SomeInt(n) == [none |-> FALSE, v |-> n]

NoFile == [missing |-> TRUE, days |-> 0, hours |-> 0, minutes |-> 0]

\* an uptime file whose line reads "up <days> days, <hours>:<minutes>, n user"
UptimeLine(d, h, m) == [missing |-> FALSE, days |-> d, hours |-> h, minutes |-> m]

\* get_uptime_seconds(base_dir) of a snapshot; the regular expressions are
\* taken by the groups they capture
get_uptime_seconds(file) ==
    IF file.missing THEN NoInt
    ELSE LET total_seconds == file.days * 24 * 3600 + file.hours * 3600 + file.minutes * 60
         IN  IF total_seconds > 0 THEN SomeInt(total_seconds) ELSE NoInt

calculate_interrupts_per_hour(count, uptime) ==
    IF uptime.none \/ uptime.v = 0 \/ uptime.v <= 0 THEN None
    ELSE LET hours == FloatDiv(IntToFloat(uptime.v), IntToFloat(3600))
         IN  FloatDiv(IntToFloat(count), hours)

\* get_irq_color_code with the bound 999 in place of 1000
get_irq_color_code_Bound999(count, rate) ==
    IF count = 0 THEN "green"
    ELSE IF rate.none \/ FloatLess(rate, IntToFloat(999)) THEN "yellow"
    ELSE "red"

\* get_irq_color_code: the colour's name
get_irq_color_code(count, rate) ==
    IF count = 0 THEN "green"
    ELSE IF rate.none \/ FloatLess(rate, IntToFloat(1000)) THEN "yellow"
    ELSE "red"

UptimeFiles ==
    {NoFile} \cup {UptimeLine(0, h, m) : h \in 0..MaxHours, m \in 0..59}

Counts == {0, 1} \cup {50 * k : k \in 1..MaxCountStep}

SevIdle ==
    /\ sev_pc = "idle" /\ uptime_file = NoFile /\ interrupt_count = 0
    /\ interrupts_per_hour = None /\ color_name = ""

SevInit ==
    /\ sev_pc = "input"
    /\ uptime_file \in UptimeFiles
    /\ interrupt_count \in Counts
    /\ interrupts_per_hour = None
    /\ color_name = ""

\* interrupts_per_hour = calculate_interrupts_per_hour(interrupt_count, uptime_seconds)
CalculateInterruptsPerHour ==
    /\ sev_pc = "input"
    /\ interrupts_per_hour' =
           calculate_interrupts_per_hour(interrupt_count, get_uptime_seconds(uptime_file))
    /\ sev_pc' = "rate"
    /\ UNCHANGED <<uptime_file, interrupt_count, color_name>>
    /\ UNCHANGED notSev

\* color_code, color_name = get_irq_color_code(interrupt_count, interrupts_per_hour)
GetIrqColorCode ==
    /\ sev_pc = "rate"
    /\ color_name' = get_irq_color_code(interrupt_count, interrupts_per_hour)
    /\ sev_pc' = "colored"
    /\ UNCHANGED <<uptime_file, interrupt_count, interrupts_per_hour>>
    /\ UNCHANGED notSev

SevNext == CalculateInterruptsPerHour \/ GetIrqColorCode

\* C5: severity is a function of count and uptime: count = 0 is green; else
\* rate = count / (uptime / 3600) when uptime is known and > 0; an unknown rate
\* or a rate < 1000 per hour is yellow and a rate >= 1000 per hour is red
\* (count = 500 with uptime = 1800 s is red).
C5_SeverityBands ==
    sev_pc = "colored" =>
        LET uptime == get_uptime_seconds(uptime_file) IN
        color_name =
            IF interrupt_count = 0 THEN "green"
            ELSE IF uptime.none THEN "yellow"
            ELSE IF interrupt_count * 3600 < 1000 * uptime.v THEN "yellow"
            ELSE "red"

(***************************************************************************)
(* Python dicts: a sequence of <<key, value>> in insertion order.          *)
(***************************************************************************)
DictHas(d, k) == \E i \in 1..Len(d) : d[i][1] = k

DictGet(d, k, default) ==
    IF DictHas(d, k) THEN d[CHOOSE i \in 1..Len(d) : d[i][1] = k][2] ELSE default

\* d[k] = v
DictPut(d, k, v) ==
    IF DictHas(d, k) THEN [i \in 1..Len(d) |-> IF d[i][1] = k THEN <<k, v>> ELSE d[i]]
    ELSE Append(d, <<k, v>>)

DictKeys(d) == {d[i][1] : i \in 1..Len(d)}

(***************************************************************************)
(* build_irq_to_cpu_mapping (irq_analyzer.py)                              *)
(***************************************************************************)
\* a file: absent, present but failing to open (OSError), or readable text
FileMissing == [state |-> "missing", text |-> <<>>]

FileUnreadable == [state |-> "unreadable", text |-> <<>>]

FileText(t) == [state |-> "ok", text |-> t]

\* the part of the loop body that decides what one IRQ directory adds to the map
AffinityEntry_KeepEmpty(map, e) ==
    IF e.affinity.state = "missing" THEN map
    ELSE IF e.affinity.state = "unreadable" THEN map
    ELSE LET current_affinity == Strip(e.affinity.text) IN
         IF current_affinity = <<>> THEN map
         ELSE LET affinity_cpus == parse_cpu_range(current_affinity) IN
              IF affinity_cpus.exc # "" THEN map
              ELSE DictPut(map, PyInt(e.name).val, Range(affinity_cpus.val))

\* one iteration of "for irq_num in irq_dirs": the map after the IRQ directory e
AffinityEntry(map, e) ==
    IF e.affinity.state = "missing" THEN map
    ELSE IF e.affinity.state = "unreadable" THEN map
    ELSE LET current_affinity == Strip(e.affinity.text) IN
         IF current_affinity = <<>> THEN map
         ELSE LET affinity_cpus == parse_cpu_range(current_affinity) IN
              IF affinity_cpus.exc # "" THEN map
              ELSE IF affinity_cpus.val # <<>>
              THEN DictPut(map, PyInt(e.name).val, Range(affinity_cpus.val))
              ELSE map

RECURSIVE AffinityLoop(_, _)
AffinityLoop(entries, map) ==
    IF entries = <<>> THEN map ELSE AffinityLoop(Tail(entries), AffinityEntry(map, Head(entries)))

\* the list comprehension: the listed directories whose name is a number
IrqDirs(entries) == SelectSeq(entries, LAMBDA e : e.isdir /\ IsDigit(e.name))

\* total_irqs_processed: the IRQ directories that have an affinity file
IrqsProcessed(entries) ==
    Len(SelectSeq(IrqDirs(entries), LAMBDA e : e.affinity.state # "missing"))

\* build_irq_to_cpu_mapping(irq_base_dir): <<irq_to_cpus, total_irqs_processed>>
build_irq_to_cpu_mapping(dir) ==
    IF dir.missing THEN << <<>>, 0 >>
    ELSE <<AffinityLoop(IrqDirs(dir.entries), <<>>), IrqsProcessed(dir.entries)>>

(***************************************************************************)
(* parse_proc_interrupts (irq_analyzer.py)                                 *)
(***************************************************************************)
RECURSIVE SplitWsFrom(_, _, _)
SplitWsFrom(s, i, cur) ==
    IF i > Len(s) THEN (IF cur = <<>> THEN <<>> ELSE <<cur>>)
    ELSE IF s[i] \in Whitespace
         THEN (IF cur = <<>> THEN <<>> ELSE <<cur>>) \o SplitWsFrom(s, i + 1, <<>>)
    ELSE SplitWsFrom(s, i + 1, Append(cur, s[i]))

\* str.split() with no separator
SplitWs(s) == SplitWsFrom(s, 1, <<>>)

RECURSIVE RStripChar(_, _)
\* str.rstrip(c)
RStripChar(s, c) ==
    IF s # <<>> /\ s[Len(s)] = c THEN RStripChar(SubSeq(s, 1, Len(s) - 1), c) ELSE s

\* pat in s
HasSub(s, pat) ==
    \E i \in 1..(Len(s) - Len(pat) + 1) : SubSeq(s, i, i + Len(pat) - 1) = pat

Upper == <<"A", "B", "C", "D", "E", "F", "G", "H", "I", "J", "K", "L", "M",
           "N", "O", "P", "Q", "R", "S", "T", "U", "V", "W", "X", "Y", "Z">>

Lower == <<"a", "b", "c", "d", "e", "f", "g", "h", "i", "j", "k", "l", "m",
           "n", "o", "p", "q", "r", "s", "t", "u", "v", "w", "x", "y", "z">>

\* str.lower()
ToLower(s) ==
    [i \in 1..Len(s) |->
        IF \E k \in 1..26 : Upper[k] = s[i]
        THEN Lower[CHOOSE k \in 1..26 : Upper[k] = s[i]]
        ELSE s[i]]

StrUnknown == <<"u", "n", "k", "n", "o", "w", "n">>

\* the if/elif chain that names the device from the row's last field
DeviceInfo(device_name) ==
    IF device_name = <<"t", "i", "m", "e", "r">> THEN <<"t", "i", "m", "e", "r">>
    ELSE IF HasSub(device_name, <<"i", "8", "0", "4", "2">>) THEN <<"k", "e", "y", "b", "o", "a", "r", "d", "/", "m", "o", "u", "s", "e">>
    ELSE IF HasSub(device_name, <<"r", "t", "c">>) THEN <<"r", "e", "a", "l", "-", "t", "i", "m", "e", " ", "c", "l", "o", "c", "k">>
    ELSE IF HasSub(device_name, <<"a", "c", "p", "i">>) THEN <<"A", "C", "P", "I">>
    ELSE IF \/ HasSub(device_name, <<"e", "h", "c", "i", "_", "h", "c", "d">>) \/ HasSub(device_name, <<"u", "h", "c", "i", "_", "h", "c", "d">>)
            \/ HasSub(device_name, <<"o", "h", "c", "i", "_", "h", "c", "d">>) \/ HasSub(device_name, <<"x", "h", "c", "i", "_", "h", "c", "d">>)
         THEN <<"U", "S", "B", " ", "c", "o", "n", "t", "r", "o", "l", "l", "e", "r">>
    ELSE IF \/ HasSub(device_name, <<"e", "n", "p">>) \/ HasSub(device_name, <<"e", "t", "h">>)
            \/ HasSub(device_name, <<"e", "n", "o">>)
         THEN <<"e", "t", "h", "e", "r", "n", "e", "t", " ", "N", "I", "C">>
    ELSE IF \/ HasSub(device_name, <<"w", "l", "p">>) \/ HasSub(device_name, <<"w", "l", "a", "n">>)
            \/ HasSub(device_name, <<"i", "w", "l", "w", "i", "f", "i">>)
         THEN <<"w", "i", "r", "e", "l", "e", "s", "s", " ", "N", "I", "C">>
    ELSE IF HasSub(device_name, <<"n", "v", "m", "e">>) THEN <<"N", "V", "M", "e", " ", "s", "t", "o", "r", "a", "g", "e">>
    ELSE IF HasSub(device_name, <<"a", "h", "c", "i">>) \/ HasSub(device_name, <<"a", "t", "a">>) THEN <<"S", "A", "T", "A", " ", "c", "o", "n", "t", "r", "o", "l", "l", "e", "r">>
    ELSE IF \/ HasSub(device_name, <<"s", "n", "d">>) \/ HasSub(device_name, <<"a", "u", "d", "i", "o">>)
            \/ HasSub(device_name, <<"h", "d", "a">>)
         THEN <<"a", "u", "d", "i", "o", " ", "d", "e", "v", "i", "c", "e">>
    ELSE IF HasSub(ToLower(device_name), <<"u", "s", "b">>) THEN <<"U", "S", "B", " ", "d", "e", "v", "i", "c", "e">>
    ELSE IF HasSub(ToLower(device_name), <<"p", "c", "i">>) THEN <<"P", "C", "I", " ", "d", "e", "v", "i", "c", "e">>
    ELSE device_name

Min(a, b) == IF a < b THEN a ELSE b

RECURSIVE SumCounts(_, _, _, _)
\* "for i in range(1, stop)": total_interrupts; a field that is no integer ends the loop.
\* parts is indexed from 1, so Python's parts[i] is parts[i + 1]
SumCounts(parts, i, stop, total) ==
    IF i >= stop THEN total
    ELSE LET n == PyInt(parts[i + 1]) IN
         IF n.exc # "" THEN total ELSE SumCounts(parts, i + 1, stop, total + n.val)

\* cpu_count = len(lines[0].split()) - 1
CpuCount(header) == Len(SplitWs(header)) - 1

\* one iteration of "for line in lines[1:]": <<irq_counts, irq_devices>> after the line
InterruptLine(stats, rawline, cpu_count) ==
    LET line == Strip(rawline)
        parts == SplitWs(line)
    IN  IF line = <<>> \/ parts = <<>> THEN stats
        ELSE LET irq_part == parts[1] IN
             IF irq_part[Len(irq_part)] # ":" THEN stats
             ELSE LET irq_num == PyInt(RStripChar(irq_part, ":")) IN
                  IF irq_num.exc # "" THEN stats
                  ELSE LET total_interrupts ==
                               SumCounts(parts, 1, Min(Len(parts), cpu_count + 1), 0)
                           device_info ==
                               IF Len(parts) > cpu_count + 1
                               THEN DeviceInfo(parts[Len(parts)])
                               ELSE StrUnknown
                       IN  << DictPut(stats[1], irq_num.val, total_interrupts),
                              DictPut(stats[2], irq_num.val, device_info) >>

RECURSIVE InterruptLines(_, _, _)
InterruptLines(lines, stats, cpu_count) ==
    IF lines = <<>> THEN stats
    ELSE InterruptLines(Tail(lines), InterruptLine(stats, Head(lines), cpu_count), cpu_count)

NoLines == [missing |-> TRUE, lines |-> <<>>]

FileLines(ls) == [missing |-> FALSE, lines |-> ls]

\* parse_proc_interrupts(base_dir): <<irq_counts, irq_devices>>
parse_proc_interrupts(file) ==
    IF file.missing THEN << <<>>, <<>> >>
    ELSE IF file.lines = <<>> THEN << <<>>, <<>> >>
    ELSE InterruptLines(Tail(file.lines), << <<>>, <<>> >>, CpuCount(file.lines[1]))

(***************************************************************************)
(* analyze_irq_violations (irq_analyzer.py)                                *)
(***************************************************************************)
\* check_irq_violations_for_cpu with the test "cpu in cpu_set" dropped
check_irq_violations_for_cpu_AnyIrq(cpu, map) ==
    [i \in 1..Len(map) |-> map[i][1]]

\* check_irq_violations_for_cpu(cpu, irq_to_cpus_map): the IRQs whose set holds cpu
check_irq_violations_for_cpu(cpu, map) ==
    LET hits == SelectSeq(map, LAMBDA kv : cpu \in kv[2])
    IN  [i \in 1..Len(hits) |-> hits[i][1]]

\* one violation_details entry
ViolationDetail(irq_num, counts, devices, uptime_seconds) ==
    LET count == DictGet(counts, irq_num, 0)
        rate == calculate_interrupts_per_hour(count, uptime_seconds)
    IN  [irq |-> irq_num,
         interrupt_count |-> count,
         interrupts_per_hour |-> rate,
         color_name |-> get_irq_color_code(count, rate),
         device_info |-> DictGet(devices, irq_num, StrUnknown)]

RECURSIVE ViolationLoop(_, _, _, _, _)
\* "for cpu in isolated_cpus": results after the CPUs of the list
ViolationLoop(cpus, map, stats, uptime_seconds, results) ==
    IF cpus = <<>> THEN results
    ELSE LET cpu == Head(cpus)
             violations == check_irq_violations_for_cpu(cpu, map)
             details == [i \in 1..Len(violations) |->
                            ViolationDetail(violations[i], stats[1], stats[2], uptime_seconds)]
             entry == [violations |-> violations, violation_details |-> details]
         IN  ViolationLoop(Tail(cpus), map, stats, uptime_seconds,
                           IF violations # <<>> THEN DictPut(results, cpu, entry) ELSE results)

\* analyze_irq_violations(isolated_cpus, irq_base_dir, base_dir): the results dict.
\* The 'containers' field of an entry is the container registry's.
analyze_irq_violations(cpus, dir, uptimefile, intfile) ==
    IF cpus = <<>> THEN <<>>
    ELSE LET map == build_irq_to_cpu_mapping(dir)[1] IN
         IF map = <<>> THEN <<>>
         ELSE ViolationLoop(cpus, map, parse_proc_interrupts(intfile),
                            get_uptime_seconds(uptimefile), <<>>)

(***************************************************************************)
(* Inputs of the IRQ engine.                                               *)
(***************************************************************************)
IrqName(i) == IntToStr(4 + i)

\* an entry of the IRQ directory
DirEntry(name, isdir, file) == [name |-> name, isdir |-> isdir, affinity |-> file]

Reverse(q) == [i \in 1..Len(q) |-> q[Len(q) + 1 - i]]

\* what the IRQ directory holds for one IRQ number: nothing, a plain file, a
\* directory whose name is no number, or an IRQ directory with an affinity file
Slot(kind, file) == [kind |-> kind, affinity |-> file]

SlotEntry(i, slot) ==
    IF slot.kind = "file" THEN DirEntry(IrqName(i), FALSE, slot.affinity)
    ELSE IF slot.kind = "named" THEN DirEntry(<<"x">> \o IrqName(i), TRUE, slot.affinity)
    ELSE DirEntry(IrqName(i), TRUE, slot.affinity)

\* os.listdir gives the entries in no particular order: ascending, or reversed
Listing(slots, reversed) ==
    LET all == [i \in 1..MaxIrqs |-> SlotEntry(i, slots[i])]
        present == SelectSeq([i \in 1..MaxIrqs |-> <<slots[i].kind, all[i]>>],
                             LAMBDA p : p[1] # "absent")
        entries == [i \in 1..Len(present) |-> present[i][2]]
    IN  [missing |-> FALSE, entries |-> IF reversed THEN Reverse(entries) ELSE entries]

MissingDir == [missing |-> TRUE, entries |-> <<>>]

\* affinity files: absent, unreadable, empty, blank, CPU lists, not a CPU list
AllAffinityFiles ==
    {FileMissing, FileUnreadable}
    \cup {FileText(t) : t \in {<<>>, <<" ">>, <<"2">>, <<"0", "-", "1">>, <<"3", ",", "9">>, <<"x">>, <<"2", "-">>}}

AllSlots ==
    {Slot("absent", FileMissing), Slot("file", FileText(<<"2">>)), Slot("named", FileText(<<"2">>))}
    \cup {Slot("irq", f) : f \in AllAffinityFiles}

AllIrqDirs ==
    {MissingDir} \cup {Listing(c, r) : c \in [1..MaxIrqs -> AllSlots], r \in BOOLEAN}

\* the IRQ directories of the analysis runs
FewSlots ==
    {Slot("absent", FileMissing)} \cup {Slot("irq", FileText(t)) : t \in {<<"2">>, <<"0", "-", "1">>, <<"3", ",", "9">>}}

FewIrqDirs == {Listing(c, r) : c \in [1..MaxIrqs -> FewSlots], r \in BOOLEAN}

IsolatedChoices == {0, 2, 3}

\* lists of distinct isolated CPUs, in any order
IsolatedLists ==
    {q \in UNION {[1..n -> IsolatedChoices] : n \in 0..MaxIsolated} :
        \A i, j \in 1..Len(q) : i # j => q[i] # q[j]}

\* a row of the interrupt table: its label, one counter per CPU, the chip and
\* device fields after the counters
Row(label, counters, tail) == [label |-> label, counters |-> counters, tail |-> tail]

RowTails == { <<>>, <<<<"I", "O", "-", "A", "P", "I", "C">>, <<"2", "-", "e", "d", "g", "e">>, <<"t", "i", "m", "e", "r">>>>, <<<<"P", "C", "I", "-", "M", "S", "I">>, <<"e", "t", "h", "0">>>> }

CounterChoices == {0, 7, 500}

RowsFor(n) ==
    {Row(IrqName(i) \o <<":">>, c, t) :
        i \in 1..MaxIrqs, c \in [1..n -> CounterChoices], t \in RowTails}

\* tables of n CPU columns: a row of a non-numeric label, then one IRQ row
Tables ==
    UNION {{[ncpu |-> n, rows |-> <<Row(<<"N", "M", "I", ":">>, [i \in 1..n |-> 7], <<<<"N", "o", "n", "-", "m", "a", "s", "k", "a", "b", "l", "e">>>>), r>>] :
              r \in RowsFor(n)} : n \in 1..MaxCpuCols}

NoTable == [ncpu |-> 0, rows |-> <<>>]

RowText(r) ==
    Join(<<" ">>, <<(<<" ">> \o r.label)>> \o [i \in 1..Len(r.counters) |-> IntToStr(r.counters[i])]
                  \o r.tail)

HeaderText(n) == <<" ", " ", " ">> \o Join(<<" ">>, [i \in 1..n |-> <<"C", "P", "U">> \o IntToStr(i - 1)])

\* the text of the interrupt table file
WriteTable(t) ==
    FileLines(<<HeaderText(t.ncpu)>> \o [i \in 1..Len(t.rows) |-> RowText(t.rows[i])])

RECURSIVE SumSeq(_)
SumSeq(q) == IF q = <<>> THEN 0 ELSE Head(q) + SumSeq(Tail(q))

IrqIdle ==
    /\ irq_pc = "idle" /\ irq_base_dir = MissingDir /\ interrupts_table = NoTable
    /\ interrupts_file = NoLines /\ irq_uptime_file = NoFile /\ isolated_cpus = <<>>
    /\ irq_to_cpus = <<>> /\ irq_stats = << <<>>, <<>> >> /\ irq_results = <<>>

IrqOutputsEmpty == irq_to_cpus = <<>> /\ irq_stats = << <<>>, <<>> >> /\ irq_results = <<>>

\* any IRQ directory; no interrupt table
IrqMapInit ==
    /\ irq_pc = "input"
    /\ irq_base_dir \in AllIrqDirs
    /\ interrupts_table = NoTable /\ interrupts_file = NoLines
    /\ irq_uptime_file = NoFile /\ isolated_cpus = <<>>
    /\ IrqOutputsEmpty

\* any interrupt table; no IRQ directory
IrqTableInit ==
    /\ irq_pc = "input"
    /\ irq_base_dir = MissingDir
    /\ \/ interrupts_table = NoTable /\ interrupts_file \in {NoLines, FileLines(<<>>)}
       \/ interrupts_table \in Tables /\ interrupts_file = WriteTable(interrupts_table)
    /\ irq_uptime_file = NoFile /\ isolated_cpus = <<>>
    /\ IrqOutputsEmpty

\* an analysis run: isolated CPUs, IRQ directories with affinities, and the
\* interrupt table and uptime present or not
IrqRunInit ==
    /\ irq_pc = "input"
    /\ irq_base_dir \in FewIrqDirs
    /\ \/ interrupts_table = NoTable /\ interrupts_file = NoLines
       \/ /\ interrupts_table \in
                {t \in Tables : /\ t.ncpu = MaxCpuCols
                                /\ t.rows[2].label = IrqName(1) \o <<":">>
                                /\ t.rows[2].tail = <<<<"P", "C", "I", "-", "M", "S", "I">>, <<"e", "t", "h", "0">>>>
                                /\ t.rows[2].counters[1] \in {0, 500}
                                /\ \A i \in 1..t.ncpu : t.rows[2].counters[i] = t.rows[2].counters[1]}
          /\ interrupts_file = WriteTable(interrupts_table)
    /\ irq_uptime_file \in {NoFile, UptimeLine(0, 0, 30)}
    /\ isolated_cpus \in IsolatedLists
    /\ IrqOutputsEmpty

IrqInputs == <<irq_base_dir, interrupts_table, interrupts_file, irq_uptime_file, isolated_cpus>>

\* irq_to_cpus_map, total_irqs_processed = build_irq_to_cpu_mapping(irq_base_dir)
BuildIrqToCpuMapping ==
    /\ irq_pc = "input"
    /\ irq_to_cpus' = build_irq_to_cpu_mapping(irq_base_dir)
    /\ irq_pc' = "mapped"
    /\ UNCHANGED <<IrqInputs, irq_stats, irq_results>>
    /\ UNCHANGED notIrq

\* irq_interrupt_counts, irq_device_info = parse_proc_interrupts(base_dir)
ParseProcInterrupts ==
    /\ irq_pc = "input"
    /\ irq_stats' = parse_proc_interrupts(interrupts_file)
    /\ irq_pc' = "counted"
    /\ UNCHANGED <<IrqInputs, irq_to_cpus, irq_results>>
    /\ UNCHANGED notIrq

\* results, total_irqs_processed, metadata = analyze_irq_violations(...)
AnalyzeIrqViolations ==
    /\ irq_pc = "input"
    /\ irq_results' =
           analyze_irq_violations(isolated_cpus, irq_base_dir, irq_uptime_file, interrupts_file)
    /\ irq_pc' = "analyzed"
    /\ UNCHANGED <<IrqInputs, irq_to_cpus, irq_stats>>
    /\ UNCHANGED notIrq

IrqNext == BuildIrqToCpuMapping \/ ParseProcInterrupts \/ AnalyzeIrqViolations


(***************************************************************************)
(* Properties of the IRQ engine.                                           *)
(***************************************************************************)
\* the IRQ numbers of the model
IrqNumbers == {4 + i : i \in 1..MaxIrqs}

\* the IRQs of a map whose CPU set holds cpu
IrqsOf(map, cpu) == {map[i][1] : i \in {j \in 1..Len(map) : cpu \in map[j][2]}}

\* the directory of the example: IRQ 5 on CPU 2, IRQ 6 on CPUs 0-1, IRQ 7 on CPUs 3,9
ExampleIrqDir ==
    Listing([i \in 1..MaxIrqs |->
                IF i = 1 THEN Slot("irq", FileText(<<"2">>))
                ELSE IF i = 2 THEN Slot("irq", FileText(<<"0", "-", "1">>))
                ELSE IF i = 3 THEN Slot("irq", FileText(<<"3", ",", "9">>))
                ELSE Slot("absent", FileMissing)], FALSE)

\* C4: the result of analyze_irq_violations has an entry for CPU c iff c is an
\* isolated CPU in the affinity set of some IRQ, and the entry's violation list
\* is exactly the IRQs whose affinity set holds c, each once; for isolated
\* CPUs 2, 3 and the affinities 5:{2}, 6:{0,1}, 7:{3,9} the violations are
\* exactly 2:[5] and 3:[7].
C4_ViolationsExact ==
    irq_pc = "analyzed" =>
        LET map == build_irq_to_cpu_mapping(irq_base_dir)[1] IN
        /\ \A c \in 0..MaxCpu :
               DictHas(irq_results, c) <=> (c \in Range(isolated_cpus) /\ IrqsOf(map, c) # {})
        /\ \A i \in 1..Len(irq_results) :
               LET c == irq_results[i][1]
                   violations == irq_results[i][2].violations
               IN  /\ c \in 0..MaxCpu
                   /\ \A j \in 1..Len(irq_results) : irq_results[j][1] = c => j = i
                   /\ Range(violations) = IrqsOf(map, c)
                   /\ Len(violations) = Cardinality(IrqsOf(map, c))
        /\ (irq_base_dir = ExampleIrqDir /\ isolated_cpus = <<2, 3>>) =>
               /\ Len(irq_results) = 2
               /\ irq_results[1][1] = 2 /\ irq_results[1][2].violations = <<5>>
               /\ irq_results[2][1] = 3 /\ irq_results[2][2].violations = <<7>>

\* the example has been analyzed: CPUs 2 and 3 have entries, IRQ 6 flags nothing
C4_Witness ==
    /\ irq_pc = "analyzed"
    /\ irq_base_dir = ExampleIrqDir
    /\ isolated_cpus = <<2, 3>>
    /\ DictKeys(irq_results) = {2, 3}

\* C6: a flagged IRQ with no row in the interrupt statistics has a violation
\* detail whose count and rate are unknown: the count is not 0 and the IRQ is
\* not classified 'green' (clear).
C6_UnknownCount ==
    irq_pc = "analyzed" =>
        \A i \in 1..Len(irq_results) :
            \A k \in 1..Len(irq_results[i][2].violation_details) :
                LET d == irq_results[i][2].violation_details[k] IN
                ~DictHas(parse_proc_interrupts(interrupts_file)[1], d.irq) =>
                    /\ d.interrupt_count # 0
                    /\ d.interrupts_per_hour = None
                    /\ d.color_name # "green"

\* C7: the count recorded for the IRQ row of a table of N CPU columns is the
\* sum of the row's N counters, and its device name comes from the fields
\* after the N counters only.
C7_AllColumnsSummed ==
    (irq_pc = "counted" /\ interrupts_table # NoTable) =>
        LET row == interrupts_table.rows[2]
            irq_num == PyInt(RStripChar(row.label, ":")).val
        IN  /\ DictHas(irq_stats[1], irq_num)
            /\ DictGet(irq_stats[1], irq_num, 0) = SumSeq(row.counters)
            /\ DictGet(irq_stats[2], irq_num, <<>>) =
                   IF row.tail = <<>> THEN StrUnknown ELSE DeviceInfo(row.tail[Len(row.tail)])

\* the IRQ directories of a listing
IsIrqDir(e) == e.isdir /\ IsDigit(e.name)

\* the affinity of an IRQ directory is readable, non-empty and parses to CPUs
HasAffinity(e) ==
    /\ e.affinity.state = "ok"
    /\ Strip(e.affinity.text) # <<>>
    /\ parse_cpu_range(Strip(e.affinity.text)).exc = ""
    /\ parse_cpu_range(Strip(e.affinity.text)).val # <<>>

\* C8: the map of build_irq_to_cpu_mapping has no empty CPU set; an IRQ whose
\* affinity file is missing, unreadable, empty or parses to no CPUs is absent,
\* and an IRQ with a non-empty parsed affinity is present with exactly that set.
C8_NoEmptyAffinity ==
    irq_pc = "mapped" =>
        LET map == irq_to_cpus[1]
            entries == Range(irq_base_dir.entries)
        IN  /\ \A i \in 1..Len(map) : map[i][2] # {}
            /\ \A i, j \in 1..Len(map) : map[i][1] = map[j][1] => i = j
            /\ \A n \in IrqNumbers :
                   LET es == {e \in entries : IsIrqDir(e) /\ DigitsValue(e.name, 0) = n /\ HasAffinity(e)}
                   IN  /\ DictHas(map, n) <=> es # {}
                       /\ \A e \in es :
                              DictGet(map, n, {}) =
                                  Range(parse_cpu_range(Strip(e.affinity.text)).val)
            /\ DictKeys(map) \subseteq IrqNumbers

\* a directory with an IRQ whose affinity parses to no CPUs, one with a blank
\* affinity and one routed to CPUs 3 and 9 has been mapped
C8_Witness ==
    /\ irq_pc = "mapped"
    /\ \E e \in Range(irq_base_dir.entries) :
           IsIrqDir(e) /\ e.affinity = FileText(<<"x">>) /\ ~DictHas(irq_to_cpus[1], DigitsValue(e.name, 0))
    /\ \E e \in Range(irq_base_dir.entries) :
           IsIrqDir(e) /\ e.affinity = FileText(<<" ">>) /\ ~DictHas(irq_to_cpus[1], DigitsValue(e.name, 0))
    /\ \E e \in Range(irq_base_dir.entries) :
           IsIrqDir(e) /\ e.affinity = FileText(<<"3", ",", "9">>)
               /\ DictGet(irq_to_cpus[1], DigitsValue(e.name, 0), {}) = {3, 9}

(***************************************************************************)
(* CPython's set of small non-negative integers (container_llc_nodes): an   *)
(* open-addressing table whose slots are <<>> when empty and <<key>> when   *)
(* used; hash(n) = n.  Iteration goes through the slots in table order.    *)
(***************************************************************************)
\* the slot where key is or goes: base slot i, linear probe j (slots from 0).
\* A table of 8 slots has no linear probes (i + 9 <= mask is false).
RECURSIVE SetProbe(_, _, _, _, _)
SetProbe(table, key, i, j, perturb) ==
    LET mask == Len(table) - 1
        probes == IF i + 9 <= mask THEN 9 ELSE 0
        entry == table[i + j + 1]
    IN  IF entry = <<>> \/ entry = <<key>> THEN i + j
        ELSE IF j < probes THEN SetProbe(table, key, i, j + 1, perturb)
        ELSE SetProbe(table, key, (i * 5 + 1 + (perturb \div 32)) % (mask + 1), 0,
                      perturb \div 32)

SetSlot(table, key) == SetProbe(table, key, key % Len(table), 0, key)

SetStore(table, key) == [table EXCEPT ![SetSlot(table, key) + 1] = <<key>>]

RECURSIVE SetTableSize(_, _)
SetTableSize(newsize, minused) ==
    IF newsize <= minused THEN SetTableSize(2 * newsize, minused) ELSE newsize

RECURSIVE SetRefill(_, _, _)
\* the keys of the old table, in slot order, stored into the new one
SetRefill(old, i, new) ==
    IF i > Len(old) THEN new
    ELSE SetRefill(old, i + 1, IF old[i] = <<>> THEN new ELSE SetStore(new, old[i][1]))

SetUsed(table) == Cardinality({i \in 1..Len(table) : table[i] # <<>>})

\* set(): a table of 8 empty slots
SetNew == [i \in 1..8 |-> <<>>]

\* s.add(key): the table grows to hold 4 * used once fill * 5 >= mask * 3
SetAdd(table, key) ==
    LET t == SetStore(table, key) IN
    IF SetUsed(t) * 5 < (Len(t) - 1) * 3 THEN t
    ELSE SetRefill(t, 1, [i \in 1..SetTableSize(8, SetUsed(t) * 4) |-> <<>>])

\* iteration: the keys in slot order
SetIter(table) ==
    LET used == SelectSeq(table, LAMBDA e : e # <<>>)
    IN  [i \in 1..Len(used) |-> used[i][1]]

(***************************************************************************)
(* check_llc_alignment (llc_analyzer.py)                                   *)
(***************************************************************************)
AlignmentResults(nodes, status, misaligned, aligned, errors) ==
    [container_llc_nodes |-> nodes, alignment_status |-> status,
     misaligned_cpus |-> misaligned, aligned_cpus |-> aligned, errors |-> errors]

RECURSIVE LlcNodesLoop(_, _, _)
\* "for cpu in container_cpus": <<container_llc_nodes, cpu_llc_mapping, errors>>
LlcNodesLoop(cpus, map, acc) ==
    IF cpus = <<>> THEN acc
    ELSE LET cpu == Head(cpus) IN
         LlcNodesLoop(Tail(cpus), map,
             IF DictHas(map, cpu)
             THEN LET llc_node == DictGet(map, cpu, 0) IN
                  << SetAdd(acc[1], llc_node), DictPut(acc[2], cpu, llc_node), acc[3] >>
             ELSE << acc[1], acc[2],
                     Append(acc[3], <<"Could not determine LLC node for CPU", cpu>>) >>)

\* the key of max(): the container CPUs that cpu_llc_mapping sends to node
NodeCpuCount(cpus, cpu_llc_mapping, node) ==
    Cardinality({i \in 1..Len(cpus) :
                    DictHas(cpu_llc_mapping, cpus[i]) /\ DictGet(cpu_llc_mapping, cpus[i], 0) = node})

\* max(container_llc_nodes, key=...): the first node of the iteration whose key
\* is the greatest
MainLlcNode(nodes, cpus, cpu_llc_mapping) ==
    LET key(n) == NodeCpuCount(cpus, cpu_llc_mapping, n)
        first == CHOOSE i \in 1..Len(nodes) :
                     /\ \A j \in 1..Len(nodes) : key(nodes[j]) <= key(nodes[i])
                     /\ \A j \in 1..(i - 1) : key(nodes[j]) < key(nodes[i])
    IN  nodes[first]

\* check_llc_alignment sorting the CPUs without an LLC node too
check_llc_alignment_Unresolved(cpus, topology, map) ==
    IF cpus = <<>>
    THEN AlignmentResults(<<>>, "unknown", <<>>, <<>>, << <<"No container CPUs provided">> >>)
    ELSE IF topology = <<>>
    THEN AlignmentResults(<<>>, "unknown", <<>>, <<>>, << <<"Could not determine LLC topology">> >>)
    ELSE LET loop == LlcNodesLoop(cpus, map, <<SetNew, <<>>, <<>> >>)
             container_llc_nodes == loop[1]
             cpu_llc_mapping == loop[2]
             errors == loop[3]
             nodes == Sorted(SetIter(container_llc_nodes))
         IN  IF SetUsed(container_llc_nodes) = 0
             THEN AlignmentResults(nodes, "error", <<>>, <<>>,
                      IF errors = <<>>
                      THEN << <<"Could not determine LLC nodes for any container CPUs">> >>
                      ELSE errors)
             ELSE IF SetUsed(container_llc_nodes) = 1
             THEN AlignmentResults(nodes, "aligned", <<>>, cpus, errors)
             ELSE LET main_llc_node == MainLlcNode(SetIter(container_llc_nodes), cpus, cpu_llc_mapping)
                      known == cpus
                  IN  AlignmentResults(nodes, "misaligned",
                          SelectSeq(known, LAMBDA c : DictGet(cpu_llc_mapping, c, 0) # main_llc_node),
                          SelectSeq(known, LAMBDA c : DictGet(cpu_llc_mapping, c, 0) = main_llc_node),
                          errors)

check_llc_alignment(cpus, topology, map) ==
    IF cpus = <<>>
    THEN AlignmentResults(<<>>, "unknown", <<>>, <<>>, << <<"No container CPUs provided">> >>)
    ELSE IF topology = <<>>
    THEN AlignmentResults(<<>>, "unknown", <<>>, <<>>, << <<"Could not determine LLC topology">> >>)
    ELSE LET loop == LlcNodesLoop(cpus, map, <<SetNew, <<>>, <<>> >>)
             container_llc_nodes == loop[1]
             cpu_llc_mapping == loop[2]
             errors == loop[3]
             nodes == Sorted(SetIter(container_llc_nodes))
         IN  IF SetUsed(container_llc_nodes) = 0
             THEN AlignmentResults(nodes, "error", <<>>, <<>>,
                      IF errors = <<>>
                      THEN << <<"Could not determine LLC nodes for any container CPUs">> >>
                      ELSE errors)
             ELSE IF SetUsed(container_llc_nodes) = 1
             THEN AlignmentResults(nodes, "aligned", <<>>, cpus, errors)
             ELSE LET main_llc_node == MainLlcNode(SetIter(container_llc_nodes), cpus, cpu_llc_mapping)
                      known == SelectSeq(cpus, LAMBDA c : DictHas(cpu_llc_mapping, c))
                  IN  AlignmentResults(nodes, "misaligned",
                          SelectSeq(known, LAMBDA c : DictGet(cpu_llc_mapping, c, 0) # main_llc_node),
                          SelectSeq(known, LAMBDA c : DictGet(cpu_llc_mapping, c, 0) = main_llc_node),
                          errors)

(***************************************************************************)
(* Inputs of the LLC engine.                                               *)
(***************************************************************************)
\* the CPUs of 0..MaxCpu in ascending order
AllCpus == [i \in 1..(MaxCpu + 1) |-> i - 1]

\* a topology as get_llc_topology returns it: <<llc_topology, cpu_to_llc>>, from
\* the LLC node of every CPU that has a cache file
Topology(cpus, node_of) ==
    LET nodes == Sorted(SetToSeq({node_of[c] : c \in Range(cpus)}))
    IN  << [i \in 1..Len(nodes) |-> <<nodes[i], SelectSeq(cpus, LAMBDA c : node_of[c] = nodes[i])>>],
           [i \in 1..Len(cpus) |-> <<cpus[i], node_of[cpus[i]]>>] >>

\* k LLC nodes, CPU c on node c % k; the CPU hole has no cache file
StripedTopology(k, hole) ==
    Topology(SelectSeq(AllCpus, LAMBDA c : c # hole), [c \in 0..MaxCpu |-> c % k])

\* CPUs 0-2 on node 0 and CPU 4 on node 1
ExampleTopology ==
    Topology(<<0, 1, 2, 4>>, [c \in 0..4 |-> IF c = 4 THEN 1 ELSE 0])

NoTopology == << <<>>, <<>> >>

Topologies ==
    {NoTopology, ExampleTopology}
    \cup {StripedTopology(k, hole) : k \in 1..MaxLlc, hole \in {4, MaxCpu + 1}}

ContainerCpuChoices == {0, 1, 4, 8, 9}

\* lists of distinct container CPUs, in any order
ContainerCpuLists ==
    {q \in UNION {[1..n -> ContainerCpuChoices] : n \in 0..MaxContainerCpus} :
        \A i, j \in 1..Len(q) : i # j => q[i] # q[j]}

NoAlignment == AlignmentResults(<<>>, "none", <<>>, <<>>, <<>>)

LlcIdle ==
    /\ llc_pc = "idle" /\ container_cpus = <<>> /\ llc_topology = <<>> /\ cpu_to_llc = <<>>
    /\ alignment_results = NoAlignment

LlcInit ==
    /\ llc_pc = "input"
    /\ container_cpus \in ContainerCpuLists
    /\ \E t \in Topologies : llc_topology = t[1] /\ cpu_to_llc = t[2]
    /\ alignment_results = NoAlignment

\* llc_alignment = check_llc_alignment(container_cpus, llc_topology, cpu_to_llc)
CheckLlcAlignment ==
    /\ llc_pc = "input"
    /\ alignment_results' = check_llc_alignment(container_cpus, llc_topology, cpu_to_llc)
    /\ llc_pc' = "checked"
    /\ UNCHANGED <<container_cpus, llc_topology, cpu_to_llc>>
    /\ UNCHANGED notLlc

LlcNext == CheckLlcAlignment

(***************************************************************************)
(* Properties of the LLC engine.                                           *)
(***************************************************************************)
\* the container CPUs that have an LLC node, and their nodes
ResolvedCpus == {c \in Range(container_cpus) : DictHas(cpu_to_llc, c)}

ResolvedNodes == {DictGet(cpu_to_llc, c, 0) : c \in ResolvedCpus}

\* C9: no resolved LLC node gives status 'error' with errors; exactly one gives
\* 'aligned' with every container CPU aligned and none misaligned; more than
\* one gives 'misaligned'; each CPU with no LLC node adds one error and the
\* other CPUs are still processed.
C9_StatusByDomains ==
    llc_pc = "checked" =>
        /\ Cardinality(ResolvedNodes) = 0 =>
               alignment_results.alignment_status = "error" /\ alignment_results.errors # <<>>
        /\ Cardinality(ResolvedNodes) = 1 =>
               /\ alignment_results.alignment_status = "aligned"
               /\ alignment_results.aligned_cpus = container_cpus
               /\ alignment_results.misaligned_cpus = <<>>
        /\ Cardinality(ResolvedNodes) > 1 =>
               alignment_results.alignment_status = "misaligned"
        /\ Cardinality(ResolvedNodes) > 0 =>
               /\ Len(alignment_results.errors) = Cardinality(Range(container_cpus) \ ResolvedCpus)
               /\ Range(alignment_results.container_llc_nodes) = ResolvedNodes

\* the container CPUs on a node
CpusOn(node) == {c \in ResolvedCpus : DictGet(cpu_to_llc, c, 0) = node}

\* the node with the most container CPUs, the lowest id among equals
HomeNode ==
    CHOOSE n \in ResolvedNodes :
        \A m \in ResolvedNodes :
            \/ Cardinality(CpusOn(m)) < Cardinality(CpusOn(n))
            \/ Cardinality(CpusOn(m)) = Cardinality(CpusOn(n)) /\ n <= m

\* C10: with more than one resolved LLC node, aligned_cpus is exactly the
\* container CPUs on the home node (the node with the most container CPUs, the
\* lowest id among equals) and misaligned_cpus exactly the container CPUs on
\* the other nodes, whatever the order of the container CPUs.
C10_HomeLowestId ==
    (llc_pc = "checked" /\ Cardinality(ResolvedNodes) > 1) =>
        /\ Range(alignment_results.aligned_cpus) = CpusOn(HomeNode)
        /\ Range(alignment_results.misaligned_cpus) = ResolvedCpus \ CpusOn(HomeNode)

(***************************************************************************)
(* check_numa_alignment (numa_analyzer.py)                                 *)
(***************************************************************************)
\* get_pci_numa_info: the node in the device's numa_node attribute file, or
\* None when the file is absent, unreadable, no integer, or negative
get_pci_numa_info(file) ==
    IF file.state # "ok" THEN NoInt
    ELSE LET numa_node == PyInt(Strip(file.text)) IN
         IF numa_node.exc = "" /\ numa_node.val >= 0 THEN SomeInt(numa_node.val) ELSE NoInt

RECURSIVE ContainerNumaNodes_FirstOnly(_, _, _)
\* ContainerNumaNodes keeping the first touched node only
ContainerNumaNodes_FirstOnly(topology, cpus, nodes) ==
    IF topology = <<>> THEN nodes
    ELSE ContainerNumaNodes_FirstOnly(Tail(topology), cpus,
             IF Range(Head(topology)[2]) \cap Range(cpus) # {} /\ nodes = <<>>
             THEN Append(nodes, Head(topology)[1]) ELSE nodes)

RECURSIVE ContainerNumaNodes(_, _, _)
\* "for numa_node, numa_info in numa_topology.items()": container_numa_nodes
ContainerNumaNodes(topology, cpus, nodes) ==
    IF topology = <<>> THEN nodes
    ELSE LET numa_node == Head(topology)[1]
             numa_cpus == Range(Head(topology)[2])
         IN  ContainerNumaNodes(Tail(topology), cpus,
                 IF numa_cpus \cap Range(cpus) # {} /\ numa_node \notin Range(nodes)
                 THEN Append(nodes, numa_node) ELSE nodes)

NumaResults(nodes, info, status, misaligned, aligned, errors) ==
    [container_numa_nodes |-> nodes, pci_numa_info |-> info, alignment_status |-> status,
     misaligned_devices |-> misaligned, aligned_devices |-> aligned, errors |-> errors]

RECURSIVE PciLoop(_, _, _)
\* "for pci_addr in pci_devices": the results after the devices; the status
\* field holds all_aligned until the loop is over
PciLoop(devices, files, r) ==
    IF devices = <<>> THEN r
    ELSE LET pci_addr == Head(devices)
             pci_numa_node == get_pci_numa_info(DictGet(files, pci_addr, FileMissing))
             entry(aligned) == DictPut(r.pci_numa_info, pci_addr,
                                       [numa_node |-> pci_numa_node, aligned |-> aligned])
         IN  PciLoop(Tail(devices), files,
                 IF pci_numa_node.none
                 THEN [r EXCEPT !.pci_numa_info = entry(FALSE),
                                !.errors = Append(@, <<"Could not determine NUMA node for PCI device", pci_addr>>),
                                !.alignment_status = FALSE]
                 ELSE IF pci_numa_node.v \in Range(r.container_numa_nodes)
                 THEN [r EXCEPT !.pci_numa_info = entry(TRUE),
                                !.aligned_devices = Append(@, pci_addr)]
                 ELSE [r EXCEPT !.pci_numa_info = entry(FALSE),
                                !.misaligned_devices = Append(@, pci_addr),
                                !.alignment_status = FALSE])

check_numa_alignment(cpus, devices, topology, files) ==
    IF cpus = <<>>
    THEN NumaResults(<<>>, <<>>, "unknown", <<>>, <<>>, << <<"No container CPUs provided">> >>)
    ELSE IF devices = <<>>
    THEN NumaResults(<<>>, <<>>, "unknown", <<>>, <<>>, << <<"No PCI devices provided">> >>)
    ELSE LET nodes == ContainerNumaNodes(topology, cpus, <<>>) IN
         IF nodes = <<>>
         THEN NumaResults(<<>>, <<>>, "unknown", <<>>, <<>>,
                          << <<"Could not determine NUMA nodes for container CPUs">> >>)
         ELSE LET r == PciLoop(devices, files, NumaResults(nodes, <<>>, TRUE, <<>>, <<>>, <<>>))
                  all_aligned == r.alignment_status
              IN  [r EXCEPT !.alignment_status =
                      IF all_aligned /\ r.errors = <<>> THEN "aligned"
                      ELSE IF r.misaligned_devices # <<>> THEN "misaligned"
                      ELSE "error"]

(***************************************************************************)
(* Inputs of the NUMA engine.                                              *)
(***************************************************************************)
\* sequences without repetition over a set, of every length
Lists(S) ==
    {q \in UNION {[1..n -> S] : n \in 0..Cardinality(S)} :
        \A i, j \in 1..Len(q) : i # j => q[i] # q[j]}

\* numa_node attribute files: absent, unreadable, nodes 0 and 1, no node, no number
PciNumaFiles ==
    {FileMissing, FileUnreadable}
    \cup {FileText(t) : t \in {<<"0">>, <<"1">>, <<"-", "1">>, <<"x">>}}

\* NUMA topologies: nodes 0 and 1 in either order; CPU 1 can be in both nodes
NumaTopologies ==
    UNION {{[i \in 1..Len(ids) |-> <<ids[i], c[i]>>] :
               c \in [1..Len(ids) -> {<<0, 1>>, <<1, 4>>, <<8>>}]} : ids \in Lists({0, 1})}

NoNumaResults == NumaResults(<<>>, <<>>, "none", <<>>, <<>>, <<>>)

NumaIdle ==
    /\ numa_pc = "idle" /\ numa_container_cpus = <<>> /\ pci_devices = <<>>
    /\ numa_topology = <<>> /\ pci_numa_files = <<>> /\ numa_results = NoNumaResults

NumaInit ==
    /\ numa_pc = "input"
    /\ numa_container_cpus \in Lists({0, 1, 4})
    /\ pci_devices \in Lists({"a", "b"})
    /\ numa_topology \in NumaTopologies
    /\ pci_numa_files \in {[i \in 1..Len(pci_devices) |-> <<pci_devices[i], f[i]>>] :
                              f \in [1..Len(pci_devices) -> PciNumaFiles]}
    /\ numa_results = NoNumaResults

\* numa_alignment = check_numa_alignment(container_cpus, pci_devices, numa_topology, base_dir)
CheckNumaAlignment ==
    /\ numa_pc = "input"
    /\ numa_results' = check_numa_alignment(numa_container_cpus, pci_devices, numa_topology,
                                            pci_numa_files)
    /\ numa_pc' = "checked"
    /\ UNCHANGED <<numa_container_cpus, pci_devices, numa_topology, pci_numa_files>>
    /\ UNCHANGED notNuma

NumaNext == CheckNumaAlignment

(***************************************************************************)
(* Properties of the NUMA engine.                                          *)
(***************************************************************************)
\* the NUMA nodes whose CPU set meets the container's CPU set
TouchedNodes ==
    {numa_topology[i][1] :
        i \in {j \in 1..Len(numa_topology) :
                  Range(numa_topology[j][2]) \cap Range(numa_container_cpus) # {}}}

\* the NUMA node a device resolves to, or None
DeviceNode(d) == get_pci_numa_info(DictGet(pci_numa_files, d, FileMissing))

DeviceAligned(d) == ~DeviceNode(d).none /\ DeviceNode(d).v \in TouchedNodes

DeviceMisaligned(d) == ~DeviceNode(d).none /\ DeviceNode(d).v \notin TouchedNodes

\* C11: the status is 'aligned' iff there are no errors and every device is
\* aligned, 'misaligned' iff some device resolved to a node outside the touched
\* nodes, and 'error' in every other case.
C11_StatusRule ==
    numa_pc = "checked" =>
        LET aligned == numa_results.errors = <<>> /\ \A d \in Range(pci_devices) : DeviceAligned(d)
            misaligned == \E d \in Range(pci_devices) : DeviceMisaligned(d)
        IN  /\ numa_results.alignment_status = "aligned" <=> aligned
            /\ numa_results.alignment_status = "misaligned" <=> misaligned
            /\ (~aligned /\ ~misaligned) => numa_results.alignment_status = "error"

\* the errors recorded for a device
DeviceErrors(d) ==
    {i \in 1..Len(numa_results.errors) :
        Len(numa_results.errors[i]) = 2 /\ numa_results.errors[i][2] = d}

\* the flag 'aligned' stored for a device: "true", "false", or "none" without entry
DeviceFlag(d) ==
    IF ~DictHas(numa_results.pci_numa_info, d) THEN "none"
    ELSE IF DictGet(numa_results.pci_numa_info, d, <<>>).aligned THEN "true" ELSE "false"

\* C12: every device is in exactly one class: resolved and aligned (in
\* aligned_devices, flag true), resolved and misaligned (in misaligned_devices),
\* or unresolved (in neither list, flag false, one error for it); an unresolved
\* device keeps the status from being 'aligned'.
C12_DeviceClasses ==
    numa_pc = "checked" =>
        /\ \A d \in Range(pci_devices) :
              LET in_aligned == d \in Range(numa_results.aligned_devices)
                  in_misaligned == d \in Range(numa_results.misaligned_devices)
              IN  \/ /\ DeviceAligned(d) /\ in_aligned /\ ~in_misaligned
                     /\ DeviceFlag(d) = "true" /\ DeviceErrors(d) = {}
                  \/ /\ DeviceMisaligned(d) /\ in_misaligned /\ ~in_aligned
                     /\ DeviceFlag(d) = "false" /\ DeviceErrors(d) = {}
                  \/ /\ DeviceNode(d).none /\ ~in_aligned /\ ~in_misaligned
                     /\ DeviceFlag(d) = "false" /\ Cardinality(DeviceErrors(d)) = 1
        /\ (\E d \in Range(pci_devices) : DeviceNode(d).none) =>
              numa_results.alignment_status # "aligned"

C14_EmptyTopologyIsError ==
    /\ (llc_pc = "checked" /\ llc_topology = <<>> /\ container_cpus # <<>>) =>
           alignment_results.alignment_status = "error" /\ alignment_results.errors # <<>>
    /\ (numa_pc = "checked" /\ numa_topology = <<>> /\ numa_container_cpus # <<>>
            /\ pci_devices # <<>>) =>
           numa_results.alignment_status = "error" /\ numa_results.errors # <<>>

(***************************************************************************)
(* Decoded JSON documents (shared_data.py).  A Python value is a record:   *)
(* t is the name of its type, and b, n, s, l or d holds the content of a   *)
(* bool, an int, a str, a list or a dict.  A dict is a sequence of         *)
(* <<key, value>> in insertion order and its keys are names.               *)
(***************************************************************************)
JNull == [t |-> "NoneType", b |-> FALSE, n |-> 0, s |-> <<>>, l |-> <<>>, d |-> <<>>]

JBool(b) == [JNull EXCEPT !.t = "bool", !.b = b]

JNum(n) == [JNull EXCEPT !.t = "int", !.n = n]

JStr(s) == [JNull EXCEPT !.t = "str", !.s = s]

JList(l) == [JNull EXCEPT !.t = "list", !.l = l]

JDict(d) == [JNull EXCEPT !.t = "dict", !.d = d]

\* len(x) of a str, a list or a dict
PyLen(x) == Len(x.s) + Len(x.l) + Len(x.d)

\* bool(x)
Truthy(x) ==
    IF x.t = "NoneType" THEN FALSE
    ELSE IF x.t = "bool" THEN x.b
    ELSE IF x.t = "int" THEN x.n # 0
    ELSE PyLen(x) > 0

\* x.get(key, default): only a dict has the method
PyGet(x, key, default) ==
    IF x.t = "dict" THEN Ok(DictGet(x.d, key, default)) ELSE Raise("AttributeError")

\* x.get(k1, {}).get(k2, {}) ... : every step has the default {}
RECURSIVE GetPath(_, _)
GetPath(x, keys) ==
    IF keys = <<>> THEN Ok(x)
    ELSE LET step == PyGet(x, Head(keys), JDict(<<>>)) IN
         IF step.exc # "" THEN step ELSE GetPath(step.val, Tail(keys))

\* x.get(k1, {}) ... .get(kn, {}).get(key): the last step has the default None
GetLeaf(x, keys, key) ==
    LET parent == GetPath(x, keys) IN
    IF parent.exc # "" THEN parent ELSE PyGet(parent.val, key, JNull)

\* "for e in x": the elements a loop over x visits.  A string gives its
\* characters, a dict its keys (a key is a name: one element of a string)
PyIter(x) ==
    IF x.t = "list" THEN Ok(x.l)
    ELSE IF x.t = "str" THEN Ok([i \in 1..Len(x.s) |-> JStr(<<x.s[i]>>)])
    ELSE IF x.t = "dict" THEN Ok([i \in 1..Len(x.d) |-> JStr(<<x.d[i][1]>>)])
    ELSE Raise("TypeError")

StartsWith(s, prefix) == Len(s) >= Len(prefix) /\ SubSeq(s, 1, Len(prefix)) = prefix

\* s.split(sep, 1)
SplitOnce(s, sep) ==
    IF Contains(s, sep)
    THEN LET i == CHOOSE j \in 1..Len(s) : s[j] = sep /\ \A k \in 1..(j - 1) : s[k] # sep
         IN  <<SubSeq(s, 1, i - 1), SubSeq(s, i + 1, Len(s))>>
    ELSE <<s>>

(***************************************************************************)
(* extract_pci_devices_from_container (shared_data.py)                     *)
(***************************************************************************)
StrPciPrefix == <<"P", "C", "I", "D", "E", "V", "I", "C", "E", "_", "O", "P", "E", "N", "S", "H", "I", "F", "T">>

StrInfoMarker == <<"_", "I", "N", "F", "O", "=">>

StrDeviceID == <<"d", "e", "v", "i", "c", "e", "I", "D">>

\* the payloads of the device-plugin variables, each a JSON text
TextDeviceA == <<"{", "\"", "d", "\"", ":", "{", "\"", "g", "e", "n", "e", "r", "i", "c", "\"", ":", "{", "\"", "d", "e", "v", "i", "c", "e", "I", "D", "\"", ":", "\"", "a", "\"", "}", "}", "}">>

TextDeviceB == <<"{", "\"", "e", "\"", ":", "{", "\"", "g", "e", "n", "e", "r", "i", "c", "\"", ":", "{", "\"", "d", "e", "v", "i", "c", "e", "I", "D", "\"", ":", "\"", "b", "\"", "}", "}", "}">>

TextTwoDevices == <<"{", "\"", "x", "\"", ":", "5", ",", "\"", "d", "\"", ":", "{", "\"", "g", "e", "n", "e", "r", "i", "c", "\"", ":", "{", "\"", "d", "e", "v", "i", "c", "e", "I", "D", "\"", ":", "\"", "a", "\"", "}", "}", ",", "\"", "e", "\"", ":", "{", "\"", "g", "e", "n", "e", "r", "i", "c", "\"", ":", "{", "\"", "d", "e", "v", "i", "c", "e", "I", "D", "\"", ":", "\"", "b", "\"", "}", "}", "}">>

TextNoGeneric == <<"{", "\"", "d", "\"", ":", "{", "\"", "x", "\"", ":", "1", "}", "}">>

TextNoDeviceID == <<"{", "\"", "d", "\"", ":", "{", "\"", "g", "e", "n", "e", "r", "i", "c", "\"", ":", "{", "}", "}", "}">>

TextGenericNumber == <<"{", "\"", "d", "\"", ":", "{", "\"", "g", "e", "n", "e", "r", "i", "c", "\"", ":", "5", "}", ",", "\"", "e", "\"", ":", "{", "\"", "g", "e", "n", "e", "r", "i", "c", "\"", ":", "{", "\"", "d", "e", "v", "i", "c", "e", "I", "D", "\"", ":", "\"", "b", "\"", "}", "}", "}">>

TextList == <<"[", "1", "]">>

TextNumber == <<"5">>

TextBroken == <<"{">>

DeviceDoc(key, id) == <<key, JDict(<< <<"generic", JDict(<< <<"deviceID", JStr(<<id>>)>> >>)>> >>)>>

\* json.loads(text), for the texts above; any other text the model writes
\* (the empty one, TextBroken) is no JSON document
json_loads(text) ==
    IF text = TextDeviceA THEN Ok(JDict(<<DeviceDoc("d", "a")>>))
    ELSE IF text = TextDeviceB THEN Ok(JDict(<<DeviceDoc("e", "b")>>))
    ELSE IF text = TextTwoDevices
    THEN Ok(JDict(<< <<"x", JNum(5)>>, DeviceDoc("d", "a"), DeviceDoc("e", "b") >>))
    ELSE IF text = TextNoGeneric THEN Ok(JDict(<< <<"d", JDict(<< <<"x", JNum(1)>> >>)>> >>))
    ELSE IF text = TextNoDeviceID
    THEN Ok(JDict(<< <<"d", JDict(<< <<"generic", JDict(<<>>)>> >>)>> >>))
    ELSE IF text = TextGenericNumber
    THEN Ok(JDict(<< <<"d", JDict(<< <<"generic", JNum(5)>> >>)>>, DeviceDoc("e", "b") >>))
    ELSE IF text = TextList THEN Ok(JList(<<JNum(1)>>))
    ELSE IF text = TextNumber THEN Ok(JNum(5))
    ELSE Raise("JSONDecodeError")

\* "'deviceID' in generic_info" and "generic_info['deviceID']" for one device
DeviceID(generic_info) ==
    IF generic_info.t = "dict"
    THEN IF DictHas(generic_info.d, "deviceID")
         THEN Ok(<<DictGet(generic_info.d, "deviceID", JNull)>>) ELSE Ok(<<>>)
    ELSE IF generic_info.t = "str"
    THEN IF HasSub(generic_info.s, StrDeviceID) THEN Raise("TypeError") ELSE Ok(<<>>)
    ELSE IF generic_info.t = "list"
    THEN IF \E i \in 1..Len(generic_info.l) : generic_info.l[i] = JStr(StrDeviceID)
         THEN Raise("TypeError") ELSE Ok(<<>>)
    ELSE Raise("TypeError")

\* "for device_id, device_data in pci_info.items()": devices after the
\* items, and whether an exception ended the loop
RECURSIVE DeviceLoop(_, _)
DeviceLoop(items, devices) ==
    IF items = <<>> THEN Ok(devices)
    ELSE LET device_data == Head(items)[2] IN
         IF device_data.t = "dict" /\ DictHas(device_data.d, "generic")
         THEN LET id == DeviceID(DictGet(device_data.d, "generic", JNull)) IN
              IF id.exc # "" THEN [exc |-> id.exc, val |-> devices]
              ELSE DeviceLoop(Tail(items), devices \o id.val)
         ELSE DeviceLoop(Tail(items), devices)

\* the body of "for env_var in env_vars" for one variable
EnvVar(env_var, devices) ==
    IF env_var.t # "str" THEN Raise("AttributeError")
    ELSE IF StartsWith(env_var.s, StrPciPrefix) /\ HasSub(env_var.s, StrInfoMarker)
    THEN LET parts == SplitOnce(env_var.s, "=") IN
         IF Len(parts) # 2 THEN Ok(devices)
         ELSE LET pci_info == json_loads(parts[2]) IN
              IF pci_info.exc # "" THEN Ok(devices)
              ELSE IF pci_info.val.t # "dict" THEN Raise("AttributeError")
              ELSE Ok(DeviceLoop(pci_info.val.d, devices).val)
    ELSE Ok(devices)

RECURSIVE EnvLoop(_, _)
EnvLoop(env_vars, devices) ==
    IF env_vars = <<>> THEN Ok(devices)
    ELSE LET one == EnvVar(Head(env_vars), devices) IN
         IF one.exc # "" THEN one ELSE EnvLoop(Tail(env_vars), one.val)

\* extract_pci_devices_from_container(container_data): the list, or the
\* exception that leaves the function
extract_pci_devices_from_container(container_data) ==
    LET process == GetPath(container_data, <<"info", "runtimeSpec", "process">>) IN
    IF process.exc # "" THEN process
    ELSE LET env_vars == PyGet(process.val, "env", JList(<<>>)) IN
         IF env_vars.exc # "" THEN env_vars
         ELSE LET elements == PyIter(env_vars.val) IN
              IF elements.exc = "TypeError" THEN Ok(<<>>)
              ELSE EnvLoop(elements.val, <<>>)


(***************************************************************************)
(* get_container_network_namespace and parse_container_data                *)
(* (shared_data.py)                                                        *)
(***************************************************************************)
StrDisable == <<"d", "i", "s", "a", "b", "l", "e">>

StrNetwork == <<"n", "e", "t", "w", "o", "r", "k">>

StrUnknownName == <<"u", "n", "k", "n", "o", "w", "n">>

\* the body of "for ns in namespaces": <<ns_id>> when the loop returns at ns
Namespace(ns) ==
    IF ns.t # "dict" THEN Raise("AttributeError")
    ELSE IF DictGet(ns.d, "type", JNull) = JStr(StrNetwork) /\ DictHas(ns.d, "path")
    THEN LET ns_path == DictGet(ns.d, "path", JNull) IN
         IF ns_path.t # "str" THEN Raise("AttributeError")
         ELSE LET segments == Split(ns_path.s, "/") IN Ok(<<JStr(segments[Len(segments)])>>)
    ELSE Ok(<<>>)

RECURSIVE NamespaceLoop(_)
NamespaceLoop(namespaces) ==
    IF namespaces = <<>> THEN Ok(JNull)
    ELSE LET one == Namespace(Head(namespaces)) IN
         IF one.exc # "" THEN one
         ELSE IF one.val # <<>> THEN Ok(one.val[1])
         ELSE NamespaceLoop(Tail(namespaces))

get_container_network_namespace(container_data) ==
    LET linux == GetPath(container_data, <<"info", "runtimeSpec", "linux">>) IN
    IF linux.exc # "" THEN linux
    ELSE LET namespaces == PyGet(linux.val, "namespaces", JList(<<>>)) IN
         IF namespaces.exc # "" THEN namespaces
         ELSE LET elements == PyIter(namespaces.val) IN
              IF elements.exc = "TypeError" THEN Ok(JNull)
              ELSE NamespaceLoop(elements.val)

\* "a or b or c" where a and b are chains of get and c is a string
FirstTruthy(a, b, c) ==
    IF a.exc # "" THEN a
    ELSE IF Truthy(a.val) THEN a
    ELSE IF b.exc # "" THEN b
    ELSE IF Truthy(b.val) THEN b
    ELSE Ok(JStr(c))

\* the annotations test of parse_container_data
IsIsolated_EitherAnnotation(annotations) ==
    DictGet(annotations.d, "irq-load-balancing.crio.io", JNull) = JStr(StrDisable)
    \/ DictGet(annotations.d, "cpu-quota.crio.io", JNull) = JStr(StrDisable)

IsIsolated(annotations) ==
    DictGet(annotations.d, "irq-load-balancing.crio.io", JNull) = JStr(StrDisable)
    /\ DictGet(annotations.d, "cpu-quota.crio.io", JNull) = JStr(StrDisable)

\* "parse_cpu_range(cpu_set) if cpu_set else []"
ContainerCpus(cpu_set) ==
    IF ~Truthy(cpu_set) THEN Ok(<<>>)
    ELSE IF cpu_set.t = "str" THEN parse_cpu_range(cpu_set.s)
    ELSE Raise("AttributeError")

\* "container_id[:12] if len(container_id) > 12 else container_id"
ShortId(container_id) ==
    IF container_id.t \in {"int", "bool"} THEN Raise("TypeError")
    ELSE IF PyLen(container_id) <= 12 THEN Ok(container_id)
    ELSE IF container_id.t = "dict" THEN Raise("TypeError")
    ELSE IF container_id.t = "list"
    THEN Ok([container_id EXCEPT !.l = SubSeq(container_id.l, 1, 12)])
    ELSE Ok([container_id EXCEPT !.s = SubSeq(container_id.s, 1, 12)])

\* a record of the containers directory: its name and what open and
\* json.load make of it.  A readable JSON text is kept as the document it
\* decodes to
ContainerFile(name, isfile, state, doc) ==
    [name |-> name, isfile |-> isfile, state |-> state, doc |-> doc]

\* the dict returned for a file that cannot be read or decoded
ErrorInfo(container_file) ==
    [error |-> "Failed to read container data", container_id |-> container_file.name,
     analysis_skipped |-> TRUE]

\* the dict returned at the end of parse_container_data, or the exception
\* raised by the first statement that fails
ContainerInfo(container_data, container_name, container_id, annotations, cpu_set, cpus, devices, netns_id, short_id) ==
    IF container_name.exc # "" THEN container_name
    ELSE IF container_id.exc # "" THEN container_id
    ELSE IF annotations.exc # "" THEN annotations
    ELSE IF annotations.val.t # "dict" THEN Raise("AttributeError")
    ELSE IF cpu_set.exc # "" THEN cpu_set
    ELSE IF cpus.exc # "" THEN cpus
    ELSE IF devices.exc # "" THEN devices
    ELSE IF netns_id.exc # "" THEN netns_id
    ELSE IF short_id.exc # "" THEN short_id
    ELSE Ok([error |-> "",
             container_name |-> container_name.val,
             container_id |-> short_id.val,
             full_container_id |-> container_id.val,
             is_isolated |-> IsIsolated(annotations.val),
             container_cpus |-> cpus.val,
             container_cpus_formatted |->
                 IF Truthy(cpu_set.val) THEN cpu_set.val ELSE JStr(<<>>),
             pci_devices |-> devices.val,
             network_namespace |-> netns_id.val,
             raw_data |-> container_data,
             analysis_skipped |-> FALSE])

\* the statements of parse_container_data that use container_id and cpu_set
ContainerFields(container_data, container_name, container_id, annotations, cpu_set) ==
    ContainerInfo(container_data, container_name, container_id, annotations, cpu_set,
                  ContainerCpus(cpu_set.val),
                  extract_pci_devices_from_container(container_data),
                  get_container_network_namespace(container_data),
                  ShortId(container_id.val))

\* parse_container_data(container_file, base_dir)
parse_container_data(container_file) ==
    IF container_file.state # "ok" THEN Ok(ErrorInfo(container_file))
    ELSE ContainerFields(
             container_file.doc,
             FirstTruthy(GetLeaf(container_file.doc, <<"info", "config", "metadata">>, "name"),
                         GetLeaf(container_file.doc, <<"status", "metadata">>, "name"),
                         StrUnknownName),
             FirstTruthy(GetLeaf(container_file.doc, <<"status">>, "id"),
                         GetLeaf(container_file.doc, <<"info">>, "id"),
                         container_file.name),
             GetPath(container_file.doc, <<"info", "runtimeSpec", "annotations">>),
             GetLeaf(container_file.doc, <<"status", "resources", "linux">>, "cpusetCpus"))


(***************************************************************************)
(* Inputs of extract_pci_devices_from_container: inspection records whose  *)
(* process has up to MaxEnv environment variables.                         *)
(***************************************************************************)
EnvPath == JStr(<<"P", "A", "T", "H", "=", "/", "b", "i", "n">>)

\* a device-plugin variable with the given payload
PciEnv(text) == JStr(StrPciPrefix \o <<"_", "X">> \o StrInfoMarker \o text)

\* PCIDEVICE_OPENSHIFT without "_INFO=": the plain address list
EnvAddressList == JStr(StrPciPrefix \o <<"_", "X", "=", "a">>)

PayloadTexts ==
    {TextDeviceA, TextDeviceB, TextTwoDevices, TextNoGeneric, TextNoDeviceID,
     TextGenericNumber, TextList, TextNumber, TextBroken, <<>>}

EnvChoices == {EnvPath, EnvAddressList} \cup {PciEnv(t) : t \in PayloadTexts}

\* the inspection record of a container with the environment env
ProcessDoc(env) ==
    JDict(<< <<"info", JDict(<< <<"runtimeSpec", JDict(<< <<"process",
              JDict(<< <<"env", env>> >>)>> >>)>> >>)>> >>)

NoPciResult == [exc |-> "none", val |-> <<>>]

PciIdle == pci_pc = "idle" /\ pci_container = JNull /\ pci_result = NoPciResult

\* a record without a process, one whose env is null, and every list of up to
\* MaxEnv variables
PciInit ==
    /\ pci_pc = "input"
    /\ \/ pci_container \in {JDict(<<>>), ProcessDoc(JNull)}
       \/ \E n \in 0..MaxEnv : \E env \in [1..n -> EnvChoices] :
              pci_container = ProcessDoc(JList(env))
    /\ pci_result = NoPciResult

\* pci_devices = extract_pci_devices_from_container(container_data)
ExtractPciDevices ==
    /\ pci_pc = "input"
    /\ pci_result' = extract_pci_devices_from_container(pci_container)
    /\ pci_pc' = "extracted"
    /\ UNCHANGED pci_container
    /\ UNCHANGED notPci

(***************************************************************************)
(* Properties of extract_pci_devices_from_container.                       *)
(***************************************************************************)
\* the environment list of the record given to the function
EnvOf(container) ==
    LET env == GetPath(container, <<"info", "runtimeSpec", "process", "env">>).val
    IN  IF env.t = "list" THEN env.l ELSE <<>>

\* the device identifiers one variable yields when it is alone in the list
DevicesAlone(env_var) ==
    LET alone == extract_pci_devices_from_container(ProcessDoc(JList(<<env_var>>)))
    IN  IF alone.exc = "" THEN alone.val ELSE <<>>

RECURSIVE DevicesInOrder(_)
DevicesInOrder(env_vars) ==
    IF env_vars = <<>> THEN <<>>
    ELSE DevicesAlone(Head(env_vars)) \o DevicesInOrder(Tail(env_vars))

\* C20: extract_pci_devices_from_container never raises, and its result is the
\* device identifiers of every environment variable, in order, whatever the
\* payloads of the other variables are
C20_ExtractionNeverAborts ==
    pci_pc = "extracted" =>
        /\ pci_result.exc = ""
        /\ pci_result.val = DevicesInOrder(EnvOf(pci_container))


(***************************************************************************)
(* load_all_container_data, get_isolated_containers and get_isolated_cpus  *)
(* (shared_data.py).  base_dir is None or a path; the filesystem gives the *)
(* tree under every root: "/" is the live host.                            *)
(***************************************************************************)
NoDir == [none |-> TRUE, path |-> ""]

Dir(path) == [none |-> FALSE, path |-> path]

\* "if base_dir"
IsSnapshot(base_dir) == ~base_dir.none /\ base_dir.path # ""

\* a directory: absent, present but failing os.listdir, or its entries
DirMissing == [state |-> "missing", entries |-> <<>>]

DirUnreadable == [state |-> "unreadable", entries |-> <<>>]

DirOf(entries) == [state |-> "ok", entries |-> entries]

\* the part of a root the tool reads: sos_commands/crio/containers,
\* sys/devices/system/node, sys/devices/system/cpu and proc/cpuinfo
Tree(containers, node, cpu, cpuinfo) ==
    [containers |-> containers, node |-> node, cpu |-> cpu, cpuinfo |-> cpuinfo]

\* "if not container_info.get('error'): containers[...] = container_info"
AddContainer(containers, container_info) ==
    IF container_info.exc # "" THEN container_info
    ELSE IF container_info.val.error # "" THEN Ok(containers)
    ELSE IF container_info.val.full_container_id.t # "str" THEN Raise("TypeError")
    ELSE Ok(DictPut(containers, container_info.val.full_container_id.s, container_info.val))

\* the body of "for container_file in container_files"
ContainerEntry(containers, container_file) ==
    IF ~container_file.isfile THEN Ok(containers)
    ELSE AddContainer(containers, parse_container_data(container_file))

RECURSIVE ContainerLoop(_, _)
RECURSIVE ContainerRest(_, _)
\* "for container_file in container_files"
ContainerLoop(container_files, containers) ==
    IF container_files = <<>> THEN Ok(containers)
    ELSE ContainerRest(Tail(container_files),
                       ContainerEntry(containers, Head(container_files)))

\* the rest of the loop, unless the body raised
ContainerRest(container_files, containers) ==
    IF containers.exc # "" THEN containers
    ELSE ContainerLoop(container_files, containers.val)

\* the outcome of a cached provider: what it returns or raises, the cache it
\* leaves, whether the cache served the call and whether it used the filesystem
Outcome(ret, cache, hit, io) == [ret |-> ret, cache |-> cache, hit |-> hit, io |-> io]

\* "_container_cache[base_dir] = containers; _cache_initialized = True", unless
\* the loop raised
CacheContainers(cache, base_dir, containers) ==
    IF containers.exc # "" THEN Outcome(containers, cache, FALSE, TRUE)
    ELSE Outcome(containers, <<DictPut(cache[1], base_dir, containers.val), TRUE>>,
                 FALSE, TRUE)

\* load_all_container_data(base_dir); the cache is <<_container_cache,
\* _cache_initialized>>
load_all_container_data(cache, files, base_dir) ==
    IF cache[2] /\ DictHas(cache[1], base_dir)
    THEN Outcome(Ok(DictGet(cache[1], base_dir, <<>>)), cache, TRUE, FALSE)
    ELSE IF IsSnapshot(base_dir)
    THEN IF files[base_dir.path].containers.state = "missing"
         THEN Outcome(Ok(<<>>), cache, FALSE, TRUE)
         ELSE CacheContainers(cache, base_dir,
                              ContainerLoop(files[base_dir.path].containers.entries, <<>>))
    ELSE Outcome(Ok(<<>>), <<DictPut(cache[1], base_dir, <<>>), TRUE>>, FALSE, FALSE)

\* the dict comprehension of get_isolated_containers
IsolatedOnly(all_containers) == SelectSeq(all_containers, LAMBDA item : item[2].is_isolated)

RECURSIVE IsolatedCpuUnion(_)
\* "for container_data in isolated_containers.values(): isolated_cpus.update(...)"
IsolatedCpuUnion(isolated_containers) ==
    IF isolated_containers = <<>> THEN {}
    ELSE Range(Head(isolated_containers)[2].container_cpus)
         \cup IsolatedCpuUnion(Tail(isolated_containers))

\* the return statement of get_isolated_containers
IsolatedOf(all_containers) ==
    IF all_containers.ret.exc # "" THEN all_containers
    ELSE [all_containers EXCEPT !.ret = Ok(IsolatedOnly(all_containers.ret.val))]

\* get_isolated_containers(base_dir)
get_isolated_containers(cache, files, base_dir) ==
    IsolatedOf(load_all_container_data(cache, files, base_dir))

\* the loop and the return statement of get_isolated_cpus
IsolatedCpusOf(isolated_containers) ==
    IF isolated_containers.ret.exc # "" THEN isolated_containers
    ELSE [isolated_containers EXCEPT
             !.ret = Ok(Sorted(SetToSeq(IsolatedCpuUnion(isolated_containers.ret.val))))]

\* get_isolated_cpus(base_dir)
get_isolated_cpus_AllContainers(cache, files, base_dir) ==
    IsolatedCpusOf(load_all_container_data(cache, files, base_dir))

get_isolated_cpus(cache, files, base_dir) ==
    IsolatedCpusOf(get_isolated_containers(cache, files, base_dir))

(***************************************************************************)
(* get_numa_topology and get_numa_topology_from_cpuinfo (shared_data.py)   *)
(***************************************************************************)
StrNode == <<"n", "o", "d", "e">>

StrCpu == <<"c", "p", "u">>

StrProcessor == <<"p", "r", "o", "c", "e", "s", "s", "o", "r">>

StrPhysicalId == <<"p", "h", "y", "s", "i", "c", "a", "l", " ", "i", "d">>

\* "d.startswith(prefix) and d[len(prefix):].isdigit()"
IsNumbered(d, prefix) ==
    StartsWith(d, prefix) /\ IsDigit(SubSeq(d, Len(prefix) + 1, Len(d)))

\* "int(d[len(prefix):])"
NumberOf(d, prefix) == PyInt(SubSeq(d, Len(prefix) + 1, Len(d))).val

\* "numa_info[node_num] = {...}", skipped when the cpulist is no CPU list
NodeCpus(numa_info, node_num, cpu_numbers) ==
    IF cpu_numbers.exc # "" THEN numa_info
    ELSE DictPut(numa_info, node_num,
                 [cpus |-> cpu_numbers.val,
                  cpulist |-> format_cpu_list_range(cpu_numbers.val)])

\* the body of "for node_dir in node_dirs"
NodeEntry(numa_info, node_dir) ==
    IF node_dir.file.state # "ok" THEN numa_info
    ELSE NodeCpus(numa_info, NumberOf(node_dir.name, StrNode),
                  parse_cpu_range(Strip(node_dir.file.text)))

RECURSIVE NodeLoop(_, _)
NodeLoop(node_dirs, numa_info) ==
    IF node_dirs = <<>> THEN numa_info
    ELSE NodeLoop(Tail(node_dirs), NodeEntry(numa_info, Head(node_dirs)))

\* the scan of sys/devices/system/node
NodeScan(numa_base) ==
    IF numa_base.state # "ok" THEN <<>>
    ELSE NodeLoop(SelectSeq(numa_base.entries, LAMBDA d : IsNumbered(d.name, StrNode)), <<>>)

\* the number read from a line, or the ValueError of int
SomeNumber(n) == IF n.exc # "" THEN n ELSE Ok(SomeInt(n.val))

\* "int(parts[1].strip())" of a "name : value" line, when the line has a colon
LineNumber(line, old) ==
    LET parts == Split(line, ":") IN
    IF Len(parts) >= 2 THEN SomeNumber(PyInt(Strip(parts[2]))) ELSE Ok(old)

\* "current_cpu = ..." and "current_numa_node = ..."
SetCurrent(st, field, n) == IF n.exc # "" THEN n ELSE Ok([st EXCEPT ![field] = n.val])

\* the body of "for line in content.split('\n')": the state is
\* [map: cpu_numa_map, cpu: current_cpu, node: current_numa_node]
CpuinfoLine(st, rawline) ==
    LET line == Strip(rawline) IN
    IF StartsWith(line, StrProcessor) THEN SetCurrent(st, "cpu", LineNumber(line, st.cpu))
    ELSE IF StartsWith(line, StrPhysicalId)
    THEN SetCurrent(st, "node", LineNumber(line, st.node))
    ELSE IF line = <<>> /\ ~st.cpu.none
    THEN Ok([map |-> IF ~st.node.none THEN DictPut(st.map, st.cpu.v, st.node.v) ELSE st.map,
             cpu |-> NoInt, node |-> NoInt])
    ELSE Ok(st)

RECURSIVE CpuinfoLoop(_, _)
RECURSIVE CpuinfoRest(_, _)
CpuinfoLoop(lines, st) ==
    IF lines = <<>> THEN Ok(st) ELSE CpuinfoRest(Tail(lines), CpuinfoLine(st, Head(lines)))

\* the rest of the loop, unless the body raised
CpuinfoRest(lines, st) == IF st.exc # "" THEN st ELSE CpuinfoLoop(lines, st.val)

RECURSIVE GroupByNode(_, _)
\* "for cpu, numa_node in cpu_numa_map.items()"
GroupByNode(cpu_numa_map, numa_info) ==
    IF cpu_numa_map = <<>> THEN numa_info
    ELSE LET cpu == Head(cpu_numa_map)[1]
             numa_node == Head(cpu_numa_map)[2]
             old == DictGet(numa_info, numa_node, [cpus |-> <<>>, cpulist |-> <<>>])
         IN  GroupByNode(Tail(cpu_numa_map),
                         DictPut(numa_info, numa_node, [old EXCEPT !.cpus = Append(@, cpu)]))

\* "for numa_node in numa_info": the formatted CPU lists
FormatNodes(numa_info) ==
    [i \in 1..Len(numa_info) |->
        <<numa_info[i][1],
          [numa_info[i][2] EXCEPT !.cpulist = format_cpu_list_range(Sorted(numa_info[i][2].cpus))]>>]

\* the grouping and formatting; "except (OSError, ValueError, IndexError): pass"
NodesOf(parsed) ==
    IF parsed.exc # "" THEN <<>> ELSE FormatNodes(GroupByNode(parsed.val.map, <<>>))

\* get_numa_topology_from_cpuinfo(base_dir)
get_numa_topology_from_cpuinfo(cpuinfo_file) ==
    IF cpuinfo_file.state # "ok" THEN <<>>
    ELSE NodesOf(CpuinfoLoop(Split(cpuinfo_file.text, "\n"),
                             [map |-> <<>>, cpu |-> NoInt, node |-> NoInt]))

\* "cache_key = base_dir or 'live'"
CacheKey(base_dir) == IF IsSnapshot(base_dir) THEN base_dir.path ELSE "live"

\* the root a topology provider reads
RootOf(base_dir) == IF IsSnapshot(base_dir) THEN base_dir.path ELSE "/"

\* "_numa_topology_cache[cache_key] = numa_info; return numa_info", and the
\* same of get_llc_topology
Store(cache, cache_key, result) ==
    Outcome(Ok(result), DictPut(cache, cache_key, result), FALSE, TRUE)

\* "if not numa_info: numa_info = get_numa_topology_from_cpuinfo(base_dir)"
OrFromCpuinfo(numa_info, cpuinfo_file) ==
    IF numa_info = <<>> THEN get_numa_topology_from_cpuinfo(cpuinfo_file) ELSE numa_info

\* get_numa_topology(base_dir); the cache is _numa_topology_cache
get_numa_topology(cache, files, base_dir) ==
    IF DictHas(cache, CacheKey(base_dir))
    THEN Outcome(Ok(DictGet(cache, CacheKey(base_dir), <<>>)), cache, TRUE, FALSE)
    ELSE IF IsSnapshot(base_dir)
    THEN Store(cache, CacheKey(base_dir),
               OrFromCpuinfo(NodeScan(files[RootOf(base_dir)].node),
                             files[RootOf(base_dir)].cpuinfo))
    ELSE Store(cache, CacheKey(base_dir), NodeScan(files[RootOf(base_dir)].node))

(***************************************************************************)
(* get_llc_topology (shared_data.py)                                       *)
(***************************************************************************)
\* the new group and the entry of cpu_to_llc, skipped when the list is no CPU list
LlcGroup_ByCpus(st, cpu_num, shared_cpu_list, shared_cpus) ==
    IF shared_cpus.exc # "" THEN st
    ELSE << IF DictHas(st[1], format_cpu_list_range(shared_cpus.val)) THEN st[1]
            ELSE DictPut(st[1], format_cpu_list_range(shared_cpus.val),
                         [cpus |-> Range(shared_cpus.val),
                          cpu_list_formatted |-> format_cpu_list_range(shared_cpus.val)]),
            DictPut(st[2], cpu_num, format_cpu_list_range(shared_cpus.val)) >>

LlcGroup(st, cpu_num, shared_cpu_list, shared_cpus) ==
    IF shared_cpus.exc # "" THEN st
    ELSE << IF DictHas(st[1], shared_cpu_list) THEN st[1]
            ELSE DictPut(st[1], shared_cpu_list,
                         [cpus |-> Range(shared_cpus.val),
                          cpu_list_formatted |-> format_cpu_list_range(shared_cpus.val)]),
            DictPut(st[2], cpu_num, shared_cpu_list) >>

\* the body of "for cpu_dir in cpu_dirs": the state is <<llc_groups, cpu_to_llc>>
LlcEntry(st, cpu_dir) ==
    IF cpu_dir.file.state # "ok" THEN st
    ELSE LlcGroup(st, NumberOf(cpu_dir.name, StrCpu), Strip(cpu_dir.file.text),
                  parse_cpu_range(Strip(cpu_dir.file.text)))

RECURSIVE LlcLoop(_, _)
LlcLoop(cpu_dirs, st) ==
    IF cpu_dirs = <<>> THEN st ELSE LlcLoop(Tail(cpu_dirs), LlcEntry(st, Head(cpu_dirs)))

\* the position of a signature among the groups, from 0: its LLC node number
LlcNodeNum(llc_groups, llc_signature) ==
    (CHOOSE i \in 1..Len(llc_groups) : llc_groups[i][1] = llc_signature) - 1

\* "for llc_signature, llc_data in llc_groups.items()": <<llc_info, cpu_to_llc>>
NumberGroups(st) ==
    << [i \in 1..Len(st[1]) |->
           <<i - 1, [cpus |-> Sorted(SetToSeq(st[1][i][2].cpus)),
                     cpulist |-> st[1][i][2].cpu_list_formatted,
                     signature |-> st[1][i][1]]>>],
       [i \in 1..Len(st[2]) |-> <<st[2][i][1], LlcNodeNum(st[1], st[2][i][2])>>] >>

\* get_llc_topology(base_dir); the cache is _llc_topology_cache
get_llc_topology(cache, files, base_dir) ==
    IF DictHas(cache, CacheKey(base_dir))
    THEN Outcome(Ok(DictGet(cache, CacheKey(base_dir), <<>>)), cache, TRUE, FALSE)
    ELSE IF files[RootOf(base_dir)].cpu.state = "missing"
    THEN Store(cache, CacheKey(base_dir), << <<>>, <<>> >>)
    ELSE IF files[RootOf(base_dir)].cpu.state = "unreadable"
    THEN Outcome(Raise("UnboundLocalError"), cache, FALSE, TRUE)
    ELSE Store(cache, CacheKey(base_dir),
               NumberGroups(LlcLoop(SelectSeq(files[RootOf(base_dir)].cpu.entries,
                                              LAMBDA d : IsNumbered(d.name, StrCpu)),
                                    << <<>>, <<>> >>)))

(***************************************************************************)
(* clear_cache (shared_data.py): the caches are <<_container_cache,        *)
(* _numa_topology_cache, _llc_topology_cache, _cache_initialized>>         *)
(***************************************************************************)
clear_cache_KeepTopology(caches) == << <<>>, caches[2], caches[3], FALSE >>

clear_cache(caches) == << <<>>, <<>>, <<>>, FALSE >>


(***************************************************************************)
(* Inputs of the shared data module.                                       *)
(***************************************************************************)
Entry(name, file) == [name |-> name, file |-> file]

StrEnable == <<"e", "n", "a", "b", "l", "e">>

\* the annotations of a container: a value <<>> stands for no annotation
Annotations(irq, quota) ==
    JDict((IF irq = <<>> THEN <<>> ELSE << <<"irq-load-balancing.crio.io", JStr(irq)>> >>)
          \o (IF quota = <<>> THEN <<>> ELSE << <<"cpu-quota.crio.io", JStr(quota)>> >>))

\* an inspection record as crictl inspect writes it
ContainerDoc(id, cpu_set, annotations) ==
    JDict(<< <<"status", JDict(<< <<"id", id>>,
                                  <<"resources", JDict(<< <<"linux",
                                      JDict(<< <<"cpusetCpus", cpu_set>> >>)>> >>)>> >>)>>,
             <<"info", JDict(<< <<"runtimeSpec",
                                  JDict(<< <<"annotations", annotations>> >>)>> >>)>> >>)

AnnotationValues == {<<>>, StrDisable, StrEnable}

FileName(i) == <<"f">> \o IntToStr(i)

ContainerId(i) == <<"c">> \o IntToStr(i)

\* the CPU set of the i-th container
CpuSetOf(i) == IF i = 1 THEN <<"0", "-", "1">> ELSE IF i = 2 THEN <<"1", ",", "4">> ELSE IntToStr(5 + i)

\* the well-formed record of the i-th container with the given annotations
GoodFile(i, irq, quota) ==
    ContainerFile(FileName(i), TRUE, "ok",
                  ContainerDoc(JStr(ContainerId(i)), JStr(CpuSetOf(i)), Annotations(irq, quota)))

\* malformed records: not an object, a null or wrongly typed field, a CPU set
\* that is no CPU list
BadDocs(i) ==
    {JList(<<>>), JNum(5),
     JDict(<< <<"status", JDict(<< <<"id", JStr(ContainerId(i))>> >>)>>, <<"info", JNull>> >>),
     ContainerDoc(JNum(7), JStr(CpuSetOf(i)), Annotations(StrDisable, StrDisable)),
     ContainerDoc(JStr(ContainerId(i)), JNum(5), Annotations(StrDisable, StrDisable)),
     ContainerDoc(JStr(ContainerId(i)), JStr(<<"1", "-">>), Annotations(StrDisable, StrDisable)),
     ContainerDoc(JStr(ContainerId(i)), JStr(CpuSetOf(i)), JNull)}

\* entries that give no container: a subdirectory, a file that cannot be read,
\* a text that is no JSON, a malformed record
BadFiles(i) ==
    {ContainerFile(FileName(i), FALSE, "ok", JNull),
     ContainerFile(FileName(i), TRUE, "unreadable", JNull),
     ContainerFile(FileName(i), TRUE, "invalid", JNull)}
    \cup {ContainerFile(FileName(i), TRUE, "ok", doc) : doc \in BadDocs(i)}

\* a containers directory of n well-formed records; when k is not 0 the k-th
\* is replaced by an entry that gives no container
ContainerListing(n, irq, quota, k, bad) ==
    [i \in 1..n |-> IF i = k THEN bad ELSE GoodFile(i, irq[i], quota[i])]

IsolatedFile(i, cpu_set) ==
    ContainerFile(FileName(i), TRUE, "ok",
                  ContainerDoc(JStr(ContainerId(i)), JStr(cpu_set),
                               Annotations(StrDisable, StrDisable)))

TextCpuinfo == <<"p", "r", "o", "c", "e", "s", "s", "o", "r", " ", ":", " ", "0", "\n", "p", "h", "y", "s", "i", "c", "a", "l", " ", "i", "d", " ", ":", " ", "0", "\n", "\n", "p", "r", "o", "c", "e", "s", "s", "o", "r", " ", ":", " ", "1", "\n", "p", "h", "y", "s", "i", "c", "a", "l", " ", "i", "d", " ", ":", " ", "1", "\n", "\n">>

\* the live host: one NUMA node, two CPUs sharing a cache
HostTree ==
    Tree(DirMissing,
         DirOf(<<Entry(<<"n", "o", "d", "e", "0">>, FileText(<<"0", "-", "3", "\n">>)), Entry(<<"p", "o", "s", "s", "i", "b", "l", "e">>, FileMissing)>>),
         DirOf(<<Entry(<<"c", "p", "u", "0">>, FileText(<<"0", "-", "1", "\n">>)), Entry(<<"c", "p", "u", "1">>, FileText(<<"0", "-", "1", "\n">>)),
                 Entry(<<"c", "p", "u", "f", "r", "e", "q">>, FileMissing)>>),
         FileMissing)

\* a snapshot directory whose path is "live": without sys/devices/system/node,
\* with proc/cpuinfo
TreeLive ==
    Tree(DirOf(<<IsolatedFile(2, <<"4">>), IsolatedFile(1, <<"0">>)>>),
         DirMissing,
         DirOf(<<Entry(<<"c", "p", "u", "0">>, FileText(<<"0", "\n">>))>>),
         FileText(TextCpuinfo))

\* a snapshot without the data the tool reads
TreeEmpty == Tree(DirMissing, DirMissing, DirMissing, FileMissing)

\* a snapshot with two NUMA nodes; the cpulist of node 2 is no CPU list
TreeA ==
    Tree(DirOf(<<IsolatedFile(1, <<"0", "-", "1">>)>>),
         DirOf(<<Entry(<<"n", "o", "d", "e", "0">>, FileText(<<"0", ",", "1", "\n">>)), Entry(<<"n", "o", "d", "e", "1">>, FileText(<<"4", "\n">>)),
                 Entry(<<"n", "o", "d", "e", "2">>, FileText(<<"5", "-", "\n">>)), Entry(<<"n", "o", "d", "e", "3">>, FileUnreadable)>>),
         DirOf(<<Entry(<<"c", "p", "u", "1">>, FileText(<<"0", "-", "1", "\n">>)), Entry(<<"c", "p", "u", "4">>, FileText(<<"4", "\n">>)),
                 Entry(<<"c", "p", "u", "0">>, FileText(<<"0", "-", "1", "\n">>)), Entry(<<"c", "p", "u", "5">>, FileText(<<"x", "-", "\n">>)),
                 Entry(<<"c", "p", "u", "6">>, FileMissing)>>),
         FileMissing)

CacheTrees == {TreeEmpty, TreeA}


(***************************************************************************)
(* The shared data module as a state machine: the providers are called     *)
(* with any source, clear_cache is called, and the data under a snapshot   *)
(* root is replaced.  data_call describes the last of these steps.         *)
(***************************************************************************)
NoRet == [exc |-> "none", val |-> <<>>]

\* fn, base_dir, ret: the call and what it returned or raised; hit, io: the cache
\* served it, it used the filesystem; repeat: the same function was called with
\* the same base_dir since the caches were last cleared; cleared: clear_cache
\* ran and no provider was called between it and this step; before: the first results that were current
\* when clear_cache ran; stale: the one of them for this call; step: the number
\* of steps so far
DataCall(fn, base_dir, ret, hit, io, repeat, cleared, before, stale, step) ==
    [fn |-> fn, base_dir |-> base_dir, ret |-> ret, hit |-> hit, io |-> io,
     repeat |-> repeat, cleared |-> cleared, before |-> before, stale |-> stale,
     step |-> step]

NoCall == DataCall("none", NoDir, NoRet, FALSE, FALSE, FALSE, FALSE, <<>>, NoRet, 0)

\* a step of the module can be taken
Running == data_call.fn # "idle" /\ data_call.step < MaxSteps

Providers == {"load_all_container_data", "get_numa_topology", "get_llc_topology"}

Sources == {NoDir, Dir("live"), Dir("snap")}

Caches == <<container_cache, numa_topology_cache, llc_topology_cache, cache_initialized>>

\* clear_cache ran and no provider was called since
AfterClear == data_call.cleared /\ data_call.fn \in {"clear_cache", "write"}

\* the record of a provider call, and the first results
Called(fn, base_dir, out, key, first) ==
    /\ data_call' = DataCall(fn, base_dir, out.ret, out.hit, out.io, DictHas(data_first, key),
                             AfterClear, <<>>,
                             IF AfterClear THEN DictGet(data_call.before, key, NoRet)
                             ELSE NoRet,
                             data_call.step + 1)
    /\ data_first' = IF DictHas(data_first, key) THEN data_first
                     ELSE DictPut(data_first, key, first)

\* containers = load_all_container_data(base_dir)
LoadAllContainerData ==
    /\ Running
    /\ \E base_dir \in Sources :
         \E out \in
             {load_all_container_data(<<container_cache, cache_initialized>>, fs, base_dir)} :
            /\ container_cache' = out.cache[1]
            /\ cache_initialized' = out.cache[2]
            /\ Called("load_all_container_data", base_dir, out,
                      <<"load_all_container_data", base_dir>>, out.ret)
            /\ UNCHANGED <<fs, numa_topology_cache, llc_topology_cache>>
            /\ UNCHANGED notData

\* isolated_containers = get_isolated_containers(base_dir)
GetIsolatedContainers ==
    /\ Running
    /\ \E base_dir \in Sources :
         \E out \in
             {get_isolated_containers(<<container_cache, cache_initialized>>, fs, base_dir)} :
            /\ container_cache' = out.cache[1]
            /\ cache_initialized' = out.cache[2]
            /\ Called("get_isolated_containers", base_dir, out,
                      <<"load_all_container_data", base_dir>>,
                      load_all_container_data(<<container_cache, cache_initialized>>, fs,
                                              base_dir).ret)
            /\ UNCHANGED <<fs, numa_topology_cache, llc_topology_cache>>
            /\ UNCHANGED notData

\* isolated_cpus = get_isolated_cpus(base_dir)
GetIsolatedCpus ==
    /\ Running
    /\ \E base_dir \in Sources :
         \E out \in
             {get_isolated_cpus(<<container_cache, cache_initialized>>, fs, base_dir)} :
            /\ container_cache' = out.cache[1]
            /\ cache_initialized' = out.cache[2]
            /\ Called("get_isolated_cpus", base_dir, out,
                      <<"load_all_container_data", base_dir>>,
                      load_all_container_data(<<container_cache, cache_initialized>>, fs,
                                              base_dir).ret)
            /\ UNCHANGED <<fs, numa_topology_cache, llc_topology_cache>>
            /\ UNCHANGED notData

\* numa_topology = get_numa_topology(base_dir)
GetNumaTopology ==
    /\ Running
    /\ \E base_dir \in Sources :
         \E out \in
             {get_numa_topology(numa_topology_cache, fs, base_dir)} :
            /\ numa_topology_cache' = out.cache
            /\ Called("get_numa_topology", base_dir, out, <<"get_numa_topology", base_dir>>,
                      out.ret)
            /\ UNCHANGED <<fs, container_cache, llc_topology_cache, cache_initialized>>
            /\ UNCHANGED notData

\* llc_topology, cpu_to_llc = get_llc_topology(base_dir)
GetLlcTopology_DropsNuma ==
    /\ Running
    /\ \E base_dir \in Sources :
         \E out \in
             {get_llc_topology(llc_topology_cache, fs, base_dir)} :
            /\ llc_topology_cache' = out.cache
            /\ numa_topology_cache' = <<>>
            /\ Called("get_llc_topology", base_dir, out, <<"get_llc_topology", base_dir>>,
                      out.ret)
            /\ UNCHANGED <<fs, container_cache, cache_initialized>>
            /\ UNCHANGED notData

GetLlcTopology ==
    /\ Running
    /\ \E base_dir \in Sources :
         \E out \in
             {get_llc_topology(llc_topology_cache, fs, base_dir)} :
            /\ llc_topology_cache' = out.cache
            /\ Called("get_llc_topology", base_dir, out, <<"get_llc_topology", base_dir>>,
                      out.ret)
            /\ UNCHANGED <<fs, container_cache, numa_topology_cache, cache_initialized>>
            /\ UNCHANGED notData

\* clear_cache()
ClearCache ==
    LET cleared == clear_cache(Caches)
    IN  /\ Running
        /\ container_cache' = cleared[1]
        /\ numa_topology_cache' = cleared[2]
        /\ llc_topology_cache' = cleared[3]
        /\ cache_initialized' = cleared[4]
        /\ data_call' = DataCall("clear_cache", NoDir, NoRet, FALSE, FALSE, FALSE, TRUE,
                                 data_first, NoRet, data_call.step + 1)
        /\ data_first' = <<>>
        /\ UNCHANGED fs
        /\ UNCHANGED notData


\* the data under a snapshot root is replaced
WriteSnapshot ==
    \E root \in {"snap"}, tree \in CacheTrees :
        /\ Running
        /\ tree # fs[root]
        /\ fs' = [fs EXCEPT ![root] = tree]
        /\ data_call' = DataCall("write", Dir(root), NoRet, FALSE, FALSE, FALSE,
                                 AfterClear, data_call.before, NoRet,
                                 data_call.step + 1)
        /\ UNCHANGED <<container_cache, numa_topology_cache, llc_topology_cache,
                       cache_initialized, data_first>>
        /\ UNCHANGED notData

IdleCall == DataCall("idle", NoDir, NoRet, FALSE, FALSE, FALSE, FALSE, <<>>, NoRet, 0)

DataIdle ==
    /\ fs = <<>> /\ container_cache = <<>> /\ numa_topology_cache = <<>>
    /\ llc_topology_cache = <<>> /\ cache_initialized = FALSE
    /\ data_call = IdleCall /\ data_first = <<>>

\* the module as imported: empty caches, _cache_initialized = False
NoCaches ==
    /\ container_cache = <<>> /\ numa_topology_cache = <<>> /\ llc_topology_cache = <<>>
    /\ cache_initialized = FALSE /\ data_call = NoCall /\ data_first = <<>>

\* the cache claims: every root holds one of the trees
CacheInit ==
    /\ fs \in {[root \in {"/", "live", "snap"} |->
                  IF root = "/" THEN HostTree ELSE IF root = "live" THEN TreeLive ELSE tree] :
               tree \in CacheTrees}
    /\ NoCaches

CacheNext ==
    LoadAllContainerData \/ GetNumaTopology \/ GetLlcTopology \/ ClearCache \/ WriteSnapshot

\* the frame claim: as CacheInit, with one step less to go
DataInit ==
    /\ fs \in {[root \in {"/", "live", "snap"} |->
                  IF root = "/" THEN HostTree ELSE IF root = "live" THEN TreeLive ELSE tree] :
               tree \in CacheTrees}
    /\ container_cache = <<>> /\ numa_topology_cache = <<>> /\ llc_topology_cache = <<>>
    /\ cache_initialized = FALSE /\ data_first = <<>>
    /\ data_call = [NoCall EXCEPT !.step = 1]

\* every function of the module that reads or writes a cache
DataNext == CacheNext \/ GetIsolatedContainers \/ GetIsolatedCpus

\* the container claims: the snapshot "snap" holds any containers directory,
\* and one call is made
LoadInit ==
    /\ \E n \in 0..MaxFiles :
           \E irq \in [1..n -> AnnotationValues], quota \in [1..n -> AnnotationValues],
              k \in 0..n :
               \E bad \in (IF k = 0 THEN {GoodFile(1, <<>>, <<>>)} ELSE BadFiles(k)) :
                   fs = [root \in {"/", "live", "snap"} |->
                            IF root = "/" THEN HostTree
                            ELSE IF root = "live" THEN TreeLive
                            ELSE Tree(DirOf(ContainerListing(n, irq, quota, k, bad)),
                                      DirMissing, DirMissing, FileMissing)]
    /\ container_cache = <<>> /\ numa_topology_cache = <<>> /\ llc_topology_cache = <<>>
    /\ cache_initialized = FALSE /\ data_first = <<>>
    /\ data_call = [NoCall EXCEPT !.step = MaxSteps - 1]

LoadNext == LoadAllContainerData \/ GetIsolatedContainers \/ GetIsolatedCpus


(***************************************************************************)
(* Inputs of the topology providers: node directories, per-CPU cache       *)
(* files and proc/cpuinfo tables, each entry good, missing, unreadable or  *)
(* unparsable.                                                             *)
(***************************************************************************)
StrX == <<"x">>

\* cpulist files of a node directory
NodeFiles ==
    {FileText(<<"0", "-", "1", "\n">>), FileText(<<"4", "\n">>), FileText(<<"5", "-", "\n">>), FileUnreadable, FileMissing}

\* sys/devices/system/node with the directories node0 .. node(n-1)
NodeListing(n, files) == [i \in 1..n |-> Entry(StrNode \o IntToStr(i - 1), files[i])]

\* shared_cpu_list files of a cpu directory
CpuFiles ==
    {FileText(<<"0", "-", "1", "\n">>), FileText(<<"4", "\n">>), FileText(<<"0", ",", "1", "\n">>), FileText(<<"x", "-", "\n">>),
     FileUnreadable, FileMissing}

\* sys/devices/system/cpu with the directories cpu0 .. cpu(n-1), listed in
\* either order
CpuListing(n, files, rev) ==
    [i \in 1..n |-> IF rev THEN Entry(StrCpu \o IntToStr(n - i), files[n + 1 - i])
                    ELSE Entry(StrCpu \o IntToStr(i - 1), files[i])]

\* the socket a block of proc/cpuinfo declares: <<>> stands for no
\* 'physical id' line
Sockets == {<<"0">>, <<"1">>, <<>>, StrX}

\* a block: the processor line is unparsable, and the socket
Blocks == [bad : BOOLEAN, socket : Sockets]

\* the lines of the block of CPU cpu, closed by an empty line
CpuinfoBlock(cpu, block) ==
    <<"p", "r", "o", "c", "e", "s", "s", "o", "r", " ", ":", " ">> \o (IF block.bad THEN StrX ELSE IntToStr(cpu)) \o <<"\n">>
    \o <<"v", "e", "n", "d", "o", "r", "_", "i", "d", " ", ":", " ", "x", "\n">>
    \o (IF block.socket = <<>> THEN <<>> ELSE <<"p", "h", "y", "s", "i", "c", "a", "l", " ", "i", "d", " ", ":", " ">> \o block.socket \o <<"\n">>)
    \o <<"\n">>

RECURSIVE CpuinfoTable(_, _)
\* proc/cpuinfo: the blocks of CPU i - 1, i, ..
CpuinfoTable(blocks, i) ==
    IF i > Len(blocks) THEN <<>>
    ELSE CpuinfoBlock(i - 1, blocks[i]) \o CpuinfoTable(blocks, i + 1)

\* CPU 0 on socket 0, CPU 1 on socket 1
TwoSockets == <<[bad |-> FALSE, socket |-> <<"0">>], [bad |-> FALSE, socket |-> <<"1">>]>>

\* node directories that give no node
BareNodeDirs ==
    {DirMissing, DirUnreadable, DirOf(<<>>),
     DirOf(<<Entry(<<"n", "o", "d", "e", "0">>, FileText(<<"5", "-", "\n">>)), Entry(<<"p", "o", "s", "s", "i", "b", "l", "e">>, FileMissing)>>)}

\* the host and the snapshot "snap" hold the tree
TopoFs(tree) == [root \in {"/", "live", "snap"} |-> IF root = "live" THEN TreeLive ELSE tree]

\* the topology claims: any node directory, cpu directory or cpuinfo table,
\* and one call
TopoInit ==
    /\ \/ \E n \in 0..MaxNodeDirs :
            \E files \in [1..n -> NodeFiles], cpuinfo \in {FileMissing, FileText(CpuinfoTable(TwoSockets, 1))} :
               fs = TopoFs(Tree(DirMissing, DirOf(NodeListing(n, files)), DirMissing, cpuinfo))
       \/ \E node \in BareNodeDirs, n \in 0..MaxBlocks :
            \E blocks \in [1..n -> Blocks] :
               fs = TopoFs(Tree(DirMissing, node, DirMissing,
                                FileText(CpuinfoTable(blocks, 1))))
       \/ \E node \in BareNodeDirs, cpu \in {DirMissing, DirUnreadable} :
            fs = TopoFs(Tree(DirMissing, node, cpu, FileMissing))
       \/ \E n \in 0..MaxCpuDirs :
            \E files \in [1..n -> CpuFiles], rev \in BOOLEAN :
               fs = TopoFs(Tree(DirMissing, DirMissing, DirOf(CpuListing(n, files, rev)),
                                FileMissing))
    /\ container_cache = <<>> /\ numa_topology_cache = <<>> /\ llc_topology_cache = <<>>
    /\ cache_initialized = FALSE /\ data_first = <<>>
    /\ data_call = [NoCall EXCEPT !.step = MaxSteps - 1]

TopoNext == GetNumaTopology \/ GetLlcTopology


(***************************************************************************)
(* get_pci_numa_info_from_lspci (numa_analyzer.py)                         *)
(***************************************************************************)
\* "0000:2f:00.7" -> "2f:00.7"
ShortPci(address) ==
    IF StartsWith(address, <<"0", "0", "0", "0", ":">>) THEN SubSeq(address, 6, Len(address)) ELSE address

\* the scan state: found_device, and the node once the function returned
LspciState(found_device, ret) == [found_device |-> found_device, ret |-> ret]

\* "numa_node = int(parts[-1])" of a NUMA line: the function returns a node that
\* is not negative, and resets found_device otherwise
NumaLine(parts) ==
    IF parts # <<>> /\ PyInt(parts[Len(parts)]).exc = "" /\ PyInt(parts[Len(parts)]).val >= 0
    THEN LspciState(TRUE, SomeInt(PyInt(parts[Len(parts)]).val))
    ELSE LspciState(FALSE, NoInt)

\* the body of "for line in lines", on the stripped line
LspciLine(found_device, short_pci, line) ==
    IF StartsWith(line, short_pci) THEN LspciState(TRUE, NoInt)
    ELSE IF found_device /\ StartsWith(line, <<"N", "U", "M", "A">>) THEN NumaLine(SplitWs(line))
    ELSE IF /\ found_device /\ line # <<>>
            /\ ~StartsWith(line, <<"\t">>) /\ ~StartsWith(line, <<" ">>)
            /\ Contains(line, ":") /\ Contains(line, ".")
    THEN LspciState(FALSE, NoInt)
    ELSE LspciState(found_device, NoInt)

RECURSIVE LspciLoop(_, _, _)
RECURSIVE LspciRest(_, _, _)
LspciLoop(lines, short_pci, found_device) ==
    IF lines = <<>> THEN NoInt
    ELSE LspciRest(Tail(lines), short_pci, LspciLine(found_device, short_pci, Strip(Head(lines))))

\* the rest of the loop, unless the body returned
LspciRest(lines, short_pci, st) ==
    IF ~st.ret.none THEN st.ret ELSE LspciLoop(lines, short_pci, st.found_device)

\* the positions of the line ends of a text
LineEnds(content) == {p \in 1..Len(content) : content[p] = "\n"}

\* the position of the k-th line end; 0 before the text, Len + 1 after it
LineEnd(content, k) ==
    IF k = 0 THEN 0
    ELSE IF k > Cardinality(LineEnds(content)) THEN Len(content) + 1
    ELSE CHOOSE p \in LineEnds(content) :
             Cardinality({q \in LineEnds(content) : q <= p}) = k

\* content.split('\n')
SplitLines(content) ==
    [k \in 1..(Cardinality(LineEnds(content)) + 1) |->
        SubSeq(content, LineEnd(content, k - 1) + 1, LineEnd(content, k) - 1)]

\* get_pci_numa_info_from_lspci(pci_address, base_dir): file is the listing
get_pci_numa_info_from_lspci(address, file) ==
    IF file.state # "ok" THEN NoInt
    ELSE LspciLoop(SplitLines(file.text), ShortPci(address), FALSE)

(***************************************************************************)
(* Inputs: listings of consecutive device blocks.                          *)
(***************************************************************************)
\* the address of the i-th device, as lspci prints it
DeviceAddress(i) == <<"2", "f", ":", "0", "0", ".">> \o IntToStr(i)

\* the attribute lines of a block before its NUMA line: none, one, or one
\* naming a vendor with a full stop
AttributeLines == {<<>>, <<"\t", "C", "o", "n", "t", "r", "o", "l", ":", " ", "I", "/", "O", "-", "\n">>, <<"\t", "S", "u", "b", "s", "y", "s", "t", "e", "m", ":", " ", "A", "c", "m", "e", " ", "I", "n", "c", ".", " ", "D", "e", "v", "i", "c", "e", "\n">>}

\* the node of the NUMA line of a block; -1 stands for no NUMA line
NumaLines == {-1, 0, 1}

DeviceBlocks == [attributes : AttributeLines, numa : NumaLines]

\* the block of the i-th device: header, attribute lines, NUMA line, a further
\* attribute line and an empty line
BlockText(i, block) ==
    DeviceAddress(i) \o <<" ", "E", "t", "h", "e", "r", "n", "e", "t", " ", "c", "o", "n", "t", "r", "o", "l", "l", "e", "r", ":", " ", "I", "n", "t", "e", "l", "\n">>
    \o block.attributes
    \o (IF block.numa = -1 THEN <<>> ELSE <<"\t", "N", "U", "M", "A", " ", "n", "o", "d", "e", ":", " ">> \o IntToStr(block.numa) \o <<"\n">>)
    \o <<"\t", "R", "e", "g", "i", "o", "n", " ", "0", ":", " ", "M", "e", "m", "o", "r", "y", "\n", "\n">>

RECURSIVE ListingText(_, _)
ListingText(blocks, i) ==
    IF i > Len(blocks) THEN <<>> ELSE BlockText(i, blocks[i]) \o ListingText(blocks, i + 1)

\* the addresses asked for: every device of the listing and one more, in the
\* full form, and the first device in the short form
Requests == {<<"0", "0", "0", "0", ":">> \o DeviceAddress(i) : i \in 1..(MaxDevices + 1)} \cup {DeviceAddress(1)}

NoBlocks == <<>>

LspciIdle ==
    /\ lspci_pc = "idle" /\ lspci_blocks = NoBlocks /\ lspci_file = FileMissing
    /\ pci_address = <<>> /\ lspci_numa_node = NoInt

LspciInit ==
    /\ lspci_pc = "input"
    /\ \E n \in 0..MaxDevices : lspci_blocks \in [1..n -> DeviceBlocks]
    /\ lspci_file \in {FileText(ListingText(lspci_blocks, 1)), FileMissing, FileUnreadable}
    /\ pci_address \in Requests
    /\ lspci_numa_node = NoInt

\* numa_node = get_pci_numa_info_from_lspci(pci_address, base_dir)
GetPciNumaInfoFromLspci ==
    /\ lspci_pc = "input"
    /\ lspci_numa_node' = get_pci_numa_info_from_lspci(pci_address, lspci_file)
    /\ lspci_pc' = "scanned"
    /\ UNCHANGED <<lspci_blocks, lspci_file, pci_address>>
    /\ UNCHANGED notLspci


(***************************************************************************)
(* The container analyses and their summaries (numa_analyzer.py,           *)
(* llc_analyzer.py).  An inspection record is given by the fields the      *)
(* analyses read from it.                                                  *)
(***************************************************************************)
\* an entry of the containers directory: isfile, state: "ok", "unreadable",
\* "invalid" (no JSON) or "uninspectable" (crictl inspect fails on the live
\* host); cpu_set and netns_id are <<>> when the record has none
Inspection(isfile, state, isolated, cpu_set, devices, netns_id) ==
    [isfile |-> isfile, state |-> state, is_isolated |-> isolated, cpu_set |-> cpu_set,
     pci_devices |-> devices, netns_id |-> netns_id]

\* the result of a container analysis; a key the code does not set has the
\* value that dict.get gives for it: "", FALSE, <<>>, a verdict of status "none"
Analysis(error, isolated, skipped, reason, devices, validation, validation_error, numa, llc) ==
    [error |-> error, is_isolated |-> isolated, analysis_skipped |-> skipped,
     skip_reason |-> reason, pci_devices |-> devices, netns_validation |-> validation,
     netns_validation_error |-> validation_error, numa_alignment |-> numa,
     llc_alignment |-> llc]

Unread ==
    Analysis("Failed to read container data", FALSE, TRUE, "", <<>>, <<>>, "",
             NoNumaResults, NoAlignment)

Skipped(isolated, reason, devices) ==
    Analysis("", isolated, TRUE, reason, devices, <<>>, "", NoNumaResults, NoAlignment)

\* the namespace listing of a snapshot
ListingSource(file) == [live |-> FALSE, file |-> file, exc |-> "", returncode |-> 0]

\* "ip netns exec" on the live host: what it raised, its return code, its output
CommandSource(exc, returncode, stdout) ==
    [live |-> TRUE, file |-> FileText(stdout), exc |-> exc, returncode |-> returncode]

\* f"parentdev {pci_addr}" in content: the content is a sequence of words
ParentDev(content, pci_addr) ==
    \E i \in 1..(Len(content) - 1) : content[i] = "parentdev" /\ content[i + 1] = pci_addr

NetnsEntry(found, error) == [found_in_netns |-> found, error |-> error]

\* the body of "for pci_addr in pci_addresses"
ValidateDevice(pci_addr, source) ==
    IF source.live
    THEN IF source.exc # "" THEN NetnsEntry(FALSE, "Command execution error")
         ELSE IF source.returncode = 0
         THEN NetnsEntry(ParentDev(source.file.text, pci_addr), "")
         ELSE NetnsEntry(FALSE, "Failed to execute ip netns command")
    ELSE IF source.file.state = "missing"
    THEN NetnsEntry(FALSE, "Network namespace file not found")
    ELSE IF source.file.state = "unreadable" THEN NetnsEntry(FALSE, "Validation error")
    ELSE NetnsEntry(ParentDev(source.file.text, pci_addr), "")

RECURSIVE ValidateLoop(_, _, _)
ValidateLoop(pci_addresses, source, validation_results) ==
    IF pci_addresses = <<>> THEN validation_results
    ELSE ValidateLoop(Tail(pci_addresses), source,
                      DictPut(validation_results, Head(pci_addresses),
                              ValidateDevice(Head(pci_addresses), source)))

\* validate_pci_in_netns(pci_addresses, netns_id, base_dir)
validate_pci_in_netns(pci_addresses, netns_id, source) ==
    IF netns_id = <<>> \/ pci_addresses = <<>> THEN <<>>
    ELSE ValidateLoop(pci_addresses, source, <<>>)

NoNumaTopology ==
    NumaResults(<<>>, <<>>, "error", <<>>, <<>>, << <<"Could not determine NUMA topology">> >>)

\* the devices whose validation found them in the namespace
FoundInNetns(devices, netns_validation) ==
    SelectSeq(devices,
              LAMBDA d : DictGet(netns_validation, d, NetnsEntry(TRUE, "")).found_in_netns)

\* "numa_topology = get_numa_topology(base_dir)" to the end, checking only the
\* devices found in the namespace
NumaVerdict_FoundOnly(cpus, devices, netns_id, netns_validation, topology, files) ==
    Ok(Analysis("", TRUE, FALSE, "", devices, netns_validation,
                IF netns_id = <<>> THEN "Could not determine network namespace" ELSE "",
                IF topology = <<>> THEN NoNumaTopology
                ELSE check_numa_alignment(cpus,
                                          FoundInNetns(devices, netns_validation),
                                          topology, files),
                NoAlignment))

\* "numa_topology = get_numa_topology(base_dir)" to the end
NumaVerdict(cpus, devices, netns_id, netns_validation, topology, files) ==
    Ok(Analysis("", TRUE, FALSE, "", devices, netns_validation,
                IF netns_id = <<>> THEN "Could not determine network namespace" ELSE "",
                IF topology = <<>> THEN NoNumaTopology
                ELSE check_numa_alignment(cpus, devices, topology, files),
                NoAlignment))

\* from "cpus = parse_cpu_range(cpu_set)"
NumaOfCpus(cpus, inspection, source, topology, files) ==
    IF cpus.exc # "" THEN cpus
    ELSE IF inspection.pci_devices = <<>>
    THEN Ok(Skipped(TRUE, "No PCI devices found in container annotations", <<>>))
    ELSE NumaVerdict(cpus.val, inspection.pci_devices, inspection.netns_id,
                     validate_pci_in_netns(inspection.pci_devices, inspection.netns_id, source),
                     topology, files)

\* analyze_container_numa_alignment(container_file, base_dir)
analyze_container_numa_alignment(inspection, source, topology, files) ==
    IF ~inspection.isfile \/ inspection.state # "ok" THEN Ok(Unread)
    ELSE IF ~inspection.is_isolated
    THEN Ok(Skipped(FALSE, "Container is not isolated (missing required annotations)", <<>>))
    ELSE IF inspection.cpu_set = <<>>
    THEN Ok(Skipped(TRUE, "No CPU set found for container", <<>>))
    ELSE NumaOfCpus(parse_cpu_range(inspection.cpu_set), inspection, source, topology, files)

NoLlcTopology ==
    AlignmentResults(<<>>, "error", <<>>, <<>>, << <<"Could not determine LLC topology">> >>)

\* from "cpus = parse_cpu_range(cpu_set)"
LlcOfCpus(cpus, inspection, llc) ==
    IF cpus.exc # "" THEN cpus
    ELSE Ok(Analysis("", TRUE, FALSE, "", inspection.pci_devices, <<>>, "", NoNumaResults,
                     IF llc[1] = <<>> THEN NoLlcTopology
                     ELSE check_llc_alignment(cpus.val, llc[1], llc[2])))

\* analyze_container_llc_alignment(container_file_or_data, base_dir, is_live_data);
\* llc is <<llc_topology, cpu_to_llc>>
analyze_container_llc_alignment(inspection, llc) ==
    IF ~inspection.isfile \/ inspection.state # "ok" THEN Ok(Unread)
    ELSE IF ~inspection.is_isolated
    THEN Ok(Skipped(FALSE, "Container is not isolated (missing required annotations)", <<>>))
    ELSE IF inspection.cpu_set = <<>>
    THEN Ok(Skipped(TRUE, "No CPU set found for container", <<>>))
    ELSE LlcOfCpus(parse_cpu_range(inspection.cpu_set), inspection, llc)

(***************************************************************************)
(* analyze_all_containers                                                  *)
(***************************************************************************)
\* the results of analyze_all_containers; counted is the name of the fourth
\* counter of the summary
NoResults(counted) ==
    [containers |-> <<>>, error |-> "",
     summary |-> [c \in {"total_containers", "isolated_containers", counted,
                         "aligned_containers", "misaligned_containers",
                         "containers_with_errors"} |-> 0]]

Add(results, counter) == [results EXCEPT !.summary[counter] = @ + 1]

\* the counter of a verdict
StatusCounter(status) ==
    IF status = "aligned" THEN "aligned_containers"
    ELSE IF status = "misaligned" THEN "misaligned_containers"
    ELSE "containers_with_errors"

\* "if container_analysis.get('is_isolated'):" of the NUMA analyzer
CountNuma(results, container_analysis) ==
    IF ~container_analysis.is_isolated THEN results
    ELSE IF container_analysis.analysis_skipped \/ container_analysis.pci_devices = <<>>
    THEN Add(results, "isolated_containers")
    ELSE Add(Add(Add(results, "isolated_containers"), "containers_with_pci"),
             StatusCounter(container_analysis.numa_alignment.alignment_status))

\* CountLlc counting a container under its verdict and under errors
CountLlc_ErrorsTwice(results, container_analysis) ==
    IF ~container_analysis.is_isolated THEN results
    ELSE IF container_analysis.analysis_skipped THEN Add(results, "isolated_containers")
    ELSE Add(Add(Add(Add(results, "isolated_containers"), "containers_analyzed"),
                 StatusCounter(container_analysis.llc_alignment.alignment_status)),
             "containers_with_errors")

\* "if container_analysis.get('is_isolated'):" of the LLC analyzer
CountLlc(results, container_analysis) ==
    IF ~container_analysis.is_isolated THEN results
    ELSE IF container_analysis.analysis_skipped THEN Add(results, "isolated_containers")
    ELSE Add(Add(Add(results, "isolated_containers"), "containers_analyzed"),
             StatusCounter(container_analysis.llc_alignment.alignment_status))

\* "results['containers'].append(container_analysis)"
Appended(results, container_analysis) ==
    [results EXCEPT !.containers = Append(@, container_analysis)]

RECURSIVE NumaContainers(_, _, _, _, _)
RECURSIVE NumaCounted(_, _, _, _, _, _)
\* "for container_file in container_files" of the NUMA analyzer
NumaContainers(container_files, source, topology, files, results) ==
    IF container_files = <<>> THEN Ok(results)
    ELSE IF ~Head(container_files).isfile
    THEN NumaContainers(Tail(container_files), source, topology, files, results)
    ELSE NumaCounted(Tail(container_files), source, topology, files,
                     Add(results, "total_containers"),
                     analyze_container_numa_alignment(Head(container_files), source, topology,
                                                      files))

\* the rest of the body, unless the analysis raised
NumaCounted(container_files, source, topology, files, results, container_analysis) ==
    IF container_analysis.exc # "" THEN container_analysis
    ELSE NumaContainers(container_files, source, topology, files,
                        CountNuma(Appended(results, container_analysis.val),
                                  container_analysis.val))

\* analyze_all_containers(base_dir) of numa_analyzer.py
analyze_all_containers_numa(live, containers_dir, source, topology, files) ==
    IF live
    THEN Ok([NoResults("containers_with_pci") EXCEPT
                !.error = "Live system analysis not yet implemented for NUMA analyzer"])
    ELSE IF containers_dir.state = "missing"
    THEN Ok([NoResults("containers_with_pci") EXCEPT !.error = "Container directory not found"])
    ELSE NumaContainers(containers_dir.entries, source, topology, files,
                        NoResults("containers_with_pci"))

RECURSIVE LlcContainers(_, _, _, _)
RECURSIVE LlcCounted(_, _, _, _, _)
\* "for container_file in container_files" and "for container_id in
\* container_ids" of the LLC analyzer
LlcContainers(container_files, live, llc, results) ==
    IF container_files = <<>> THEN Ok(results)
    ELSE IF ~live /\ ~Head(container_files).isfile
    THEN LlcContainers(Tail(container_files), live, llc, results)
    ELSE IF live /\ Head(container_files).state # "ok"
    THEN LlcContainers(Tail(container_files), live, llc, Add(results, "total_containers"))
    ELSE LlcCounted(Tail(container_files), live, llc, Add(results, "total_containers"),
                    analyze_container_llc_alignment(Head(container_files), llc))

\* the rest of the body, unless the analysis raised
LlcCounted(container_files, live, llc, results, container_analysis) ==
    IF container_analysis.exc # "" THEN container_analysis
    ELSE LlcContainers(container_files, live, llc,
                       CountLlc(Appended(results, container_analysis.val),
                                container_analysis.val))

\* analyze_all_containers(base_dir) of llc_analyzer.py; on the live host the
\* entries are the containers crictl lists
analyze_all_containers_llc(live, containers_dir, llc) ==
    IF ~live /\ containers_dir.state = "missing"
    THEN Ok([NoResults("containers_analyzed") EXCEPT !.error = "Container directory not found"])
    ELSE IF live /\ containers_dir.entries = <<>>
    THEN Ok([NoResults("containers_analyzed") EXCEPT
                !.error = "Could not retrieve container list from live system"])
    ELSE LlcContainers(containers_dir.entries, live, llc, NoResults("containers_analyzed"))

(***************************************************************************)
(* Inputs of the analyses.                                                 *)
(***************************************************************************)
StrNs == <<"n", "s", "1">>

\* inspection records whose analysis reaches the verdict
AnalysedRecords(netns_ids) ==
    {Inspection(TRUE, "ok", TRUE, cpu_set, devices, netns_id) :
        cpu_set \in {<<"0">>, <<"0", ",", "4">>}, devices \in {<<"a">>, <<"a", "b">>},
        netns_id \in netns_ids}

\* entries that are skipped or make the analysis raise: a subdirectory, a file
\* that cannot be read, a container that is not isolated, has no CPU set or no
\* PCI device, and a CPU set that is no CPU list
OtherRecords ==
    {Inspection(FALSE, "ok", FALSE, <<>>, <<>>, <<>>),
     Inspection(TRUE, "unreadable", FALSE, <<>>, <<>>, <<>>),
     Inspection(TRUE, "ok", FALSE, <<"0">>, <<"a">>, StrNs),
     Inspection(TRUE, "ok", TRUE, <<>>, <<"a">>, StrNs),
     Inspection(TRUE, "ok", TRUE, <<"0">>, <<>>, StrNs),
     Inspection(TRUE, "ok", TRUE, <<"1", "-">>, <<"a">>, StrNs)}

\* the containers crictl lists on the live host: inspected or not
LiveRecords ==
    AnalysedRecords({StrNs})
    \cup {Inspection(TRUE, "uninspectable", FALSE, <<>>, <<>>, <<>>),
          Inspection(TRUE, "ok", FALSE, <<"0">>, <<"a">>, StrNs)}

\* what the namespace listing names
ListingWords == {<<>>, <<"link", "parentdev", "a">>, <<"parentdev", "a", "parentdev", "b">>}

NetnsSources ==
    {ListingSource(FileMissing), ListingSource(FileUnreadable)}
    \cup {ListingSource(FileText(w)) : w \in ListingWords}
    \cup {CommandSource("", 0, w) : w \in ListingWords}
    \cup {CommandSource("", 1, <<>>), CommandSource("TimeoutExpired", 0, <<>>),
          CommandSource("FileNotFoundError", 0, <<>>)}

\* the numa_node attribute files of the devices
AnalysisPciFiles ==
    {<< <<"a", FileText(a)>>, <<"b", b>> >> :
        a \in {<<"0">>, <<"1">>}, b \in {FileText(<<"0">>), FileText(<<"1">>), FileMissing}}

\* no node, one node, two nodes
AnalysisNumaTopologies ==
    {<<>>, << <<0, <<0, 1, 4>>>> >>, << <<0, <<0, 1>>>>, <<1, <<4>>>> >>}

AnalysisLlcTopologies == {NoTopology, ExampleTopology, StripedTopology(2, 4)}

NoAnalysis == [exc |-> "none", val |-> <<>>]

AnalysisIdle ==
    /\ analysis_pc = "idle" /\ analysis_run = "none" /\ analysis_live = FALSE
    /\ analysis_dir = DirMissing /\ analysis_source = ListingSource(FileMissing)
    /\ analysis_topology = <<>> /\ analysis_pci_files = <<>> /\ analysis_results = NoAnalysis

\* one container with every outcome of the namespace validation, or a
\* containers directory
AnalysisInit ==
    /\ analysis_pc = "input"
    /\ analysis_results = NoAnalysis
    /\ \/ /\ analysis_run = "container"
          /\ \E inspection \in AnalysedRecords({<<>>, StrNs}) \cup OtherRecords :
                analysis_dir = DirOf(<<inspection>>)
          /\ analysis_source \in NetnsSources
          /\ analysis_live = analysis_source.live
          /\ analysis_topology \in AnalysisNumaTopologies
          /\ analysis_pci_files \in AnalysisPciFiles
       \/ /\ analysis_run = "numa"
          /\ analysis_live \in BOOLEAN
          /\ \/ analysis_dir \in {DirMissing, DirUnreadable}
             \/ \E n \in 0..MaxContainers :
                   \E entries \in [1..n -> AnalysedRecords({StrNs}) \cup OtherRecords] :
                      analysis_dir = DirOf(entries)
          /\ analysis_source \in {ListingSource(FileMissing),
                                  ListingSource(FileText(<<"link", "parentdev", "a">>))}
          /\ analysis_topology \in AnalysisNumaTopologies
          /\ analysis_pci_files \in {files \in AnalysisPciFiles : files[1][2] = FileText(<<"0">>)}
       \/ /\ analysis_run = "llc"
          /\ analysis_live \in BOOLEAN
          /\ \/ analysis_dir \in {DirMissing, DirUnreadable} /\ ~analysis_live
             \/ \E n \in 0..MaxContainers :
                   \E entries \in [1..n -> IF analysis_live THEN LiveRecords
                                           ELSE AnalysedRecords({StrNs}) \cup OtherRecords] :
                      analysis_dir = DirOf(entries)
          /\ analysis_source = ListingSource(FileMissing)
          /\ analysis_topology \in AnalysisLlcTopologies
          /\ analysis_pci_files = <<>>

\* container_analysis = analyze_container_numa_alignment(container_file, base_dir)
AnalyzeContainerNumaAlignment ==
    /\ analysis_pc = "input" /\ analysis_run = "container"
    /\ analysis_results' = analyze_container_numa_alignment(analysis_dir.entries[1],
                               analysis_source, analysis_topology, analysis_pci_files)
    /\ analysis_pc' = "analyzed"
    /\ UNCHANGED <<analysis_run, analysis_live, analysis_dir, analysis_source,
                   analysis_topology, analysis_pci_files>>
    /\ UNCHANGED notAnalysis

\* results = analyze_all_containers(base_dir) of numa_analyzer.py
AnalyzeAllContainersNuma ==
    /\ analysis_pc = "input" /\ analysis_run = "numa"
    /\ analysis_results' = analyze_all_containers_numa(analysis_live, analysis_dir,
                               analysis_source, analysis_topology, analysis_pci_files)
    /\ analysis_pc' = "analyzed"
    /\ UNCHANGED <<analysis_run, analysis_live, analysis_dir, analysis_source,
                   analysis_topology, analysis_pci_files>>
    /\ UNCHANGED notAnalysis

\* results = analyze_all_containers(base_dir) of llc_analyzer.py
AnalyzeAllContainersLlc ==
    /\ analysis_pc = "input" /\ analysis_run = "llc"
    /\ analysis_results' = analyze_all_containers_llc(analysis_live, analysis_dir,
                                                      analysis_topology)
    /\ analysis_pc' = "analyzed"
    /\ UNCHANGED <<analysis_run, analysis_live, analysis_dir, analysis_source,
                   analysis_topology, analysis_pci_files>>
    /\ UNCHANGED notAnalysis

AnalysisNext ==
    AnalyzeContainerNumaAlignment \/ AnalyzeAllContainersNuma \/ AnalyzeAllContainersLlc

(***************************************************************************)
(* The summary of the IRQ report (irq_analyzer.py, main)                   *)
(***************************************************************************)
NoSummary ==
    [made |-> FALSE, cpus |-> 0, total_violations |-> 0, total_critical_irqs |-> 0,
     total_warning_irqs |-> 0, total_zero_irqs |-> 0]

\* "rate = detail.get('interrupts_per_hour', 0) or 0": None and 0.0 become 0
RateOrZero(rate) ==
    IF rate.none \/ IsZero(rate) THEN FloatZero ELSE rate

\* SeverityClass with an unknown rate counted as critical
SeverityClass_UnknownCritical(detail) ==
    IF detail.interrupt_count = 0 THEN "zero"
    ELSE IF ~detail.interrupts_per_hour.none
            /\ FloatLess(RateOrZero(detail.interrupts_per_hour), IntToFloat(1000))
    THEN "warning"
    ELSE "critical"

\* the counter main increments for one violation detail:
\* "if count == 0 / elif rate < 1000 / else"
SeverityClass(detail) ==
    IF detail.interrupt_count = 0 THEN "zero"
    ELSE IF FloatLess(RateOrZero(detail.interrupts_per_hour), IntToFloat(1000))
    THEN "warning"
    ELSE "critical"

\* cpu_critical, cpu_warning, cpu_zero
Tally(critical, warning, zero) == [critical |-> critical, warning |-> warning, zero |-> zero]

RECURSIVE DetailLoop(_, _)
\* "for detail in data.get('violation_details', [])"
DetailLoop(details, tally) ==
    IF details = <<>> THEN tally
    ELSE DetailLoop(Tail(details), [tally EXCEPT ![SeverityClass(Head(details))] = @ + 1])

\* "total_critical_irqs += cpu_critical" and the two lines after it
AddTally(totals, cpu_tally) ==
    Tally(totals.critical + cpu_tally.critical, totals.warning + cpu_tally.warning,
          totals.zero + cpu_tally.zero)

RECURSIVE SeverityLoop(_, _)
\* "for cpu, data in violations_data.items()"
SeverityLoop(violations_data, totals) ==
    IF violations_data = <<>> THEN totals
    ELSE SeverityLoop(Tail(violations_data),
                      AddTally(totals, DetailLoop(Head(violations_data)[2].violation_details,
                                                  Tally(0, 0, 0))))

RECURSIVE TotalViolations(_)
\* sum(len(data['violations']) for data in violations_data.values())
TotalViolations(violations_data) ==
    IF violations_data = <<>> THEN 0
    ELSE Len(Head(violations_data)[2].violations) + TotalViolations(Tail(violations_data))

\* the SUMMARY block of the text report from the totals of the severity loop
SummaryOf(violations_data, totals) ==
    [made |-> TRUE, cpus |-> Len(violations_data),
     total_violations |-> TotalViolations(violations_data),
     total_critical_irqs |-> totals.critical,
     total_warning_irqs |-> totals.warning,
     total_zero_irqs |-> totals.zero]

\* what main prints as TOTAL_VIOLATIONS and SUMMARY for the results of
\* analyze_irq_violations; the order in which the CPUs and IRQs are then
\* listed (by rate) is not part of the totals
MainSummary(violations_data) ==
    SummaryOf(violations_data, SeverityLoop(violations_data, Tally(0, 0, 0)))

SummaryIdle == irq_summary = NoSummary

\* the interrupt tables of the report runs: IRQ 5 with the counters 0, 7 or 500
\* on the first CPU and nothing or the same on the others
ReportTables ==
    {t \in Tables : /\ t.ncpu = MaxCpuCols
                    /\ t.rows[2].label = IrqName(1) \o <<":">>
                    /\ t.rows[2].tail = <<<<"P", "C", "I", "-", "M", "S", "I">>, <<"e", "t", "h", "0">>>>
                    /\ t.rows[2].counters[t.ncpu] \in {0, t.rows[2].counters[1]}
                    /\ \A i \in 2..t.ncpu : t.rows[2].counters[i] = t.rows[2].counters[t.ncpu]}

\* the IRQ directories of the report runs, listed in ascending order
ReportDirs == {Listing(c, FALSE) : c \in [1..MaxIrqs -> FewSlots]}

\* a run of main that reaches the report: some isolated CPUs, an IRQ directory,
\* the interrupt table and the uptime present or not
IrqReportInit ==
    /\ irq_pc = "input"
    /\ irq_base_dir \in ReportDirs
    /\ \/ interrupts_table = NoTable /\ interrupts_file = NoLines
       \/ interrupts_table \in ReportTables /\ interrupts_file = WriteTable(interrupts_table)
    /\ irq_uptime_file \in {NoFile, UptimeLine(0, 0, 30)}
    /\ isolated_cpus \in IsolatedLists \ {<<>>}
    /\ IrqOutputsEmpty
    /\ irq_summary = NoSummary

\* main after analyze_irq_violations: the summary output format
Main ==
    /\ irq_pc = "analyzed"
    /\ isolated_cpus # <<>>
    /\ irq_summary' = MainSummary(irq_results)
    /\ irq_pc' = "summarized"
    /\ UNCHANGED <<IrqInputs, irq_to_cpus, irq_stats, irq_results>>
    /\ UNCHANGED notMain

ReportNext == AnalyzeIrqViolations \/ Main


(***************************************************************************)
(* Properties of the shared data module.                                   *)
(***************************************************************************)
\* C15: a provider called again with the same source, with no clear_cache in
\* between, uses no filesystem call and returns what its first call returned
C15_CachedAfterFirstCall ==
    (data_call.fn \in Providers /\ data_call.repeat) =>
        /\ ~data_call.io
        /\ data_call.ret = DictGet(data_first, <<data_call.fn, data_call.base_dir>>, NoRet)

\* C16: a call is served from a cache only if the same provider was called
\* with the same source before: a result cached for one source is not
\* returned for another
C16_KeyedBySource == (data_call.fn \in Providers /\ data_call.hit) => data_call.repeat

\* what a provider returns when nothing is cached
Fresh(fn, base_dir) ==
    IF fn = "load_all_container_data"
    THEN load_all_container_data(<< <<>>, FALSE >>, fs, base_dir).ret
    ELSE IF fn = "get_numa_topology" THEN get_numa_topology(<<>>, fs, base_dir).ret
    ELSE get_llc_topology(<<>>, fs, base_dir).ret

\* C17: clear_cache leaves the three caches empty and the flag false, and the
\* next call of a provider is not served from a cache: it returns the data
\* that is under the source at the time of the call
C17_ClearCacheRescans ==
    /\ data_call.fn = "clear_cache" =>
           /\ container_cache = <<>> /\ numa_topology_cache = <<>>
           /\ llc_topology_cache = <<>> /\ ~cache_initialized
    /\ (data_call.fn \in Providers /\ data_call.cleared) =>
           /\ ~data_call.hit
           /\ data_call.ret = Fresh(data_call.fn, data_call.base_dir)

\* a provider is called after clear_cache, for a source whose data have changed
\* since the result that was cached before the clear
C17_Witness ==
    /\ data_call.fn \in Providers /\ data_call.cleared
    /\ data_call.stale.exc = "" /\ data_call.ret.exc = ""
    /\ data_call.ret.val # <<>> /\ data_call.stale # data_call.ret

\* the entry gives no container
Malformed(container_file) ==
    \E i \in 1..MaxFiles : container_file \in BadFiles(i)

\* C18: load_all_container_data does not raise, and returns what it returns for
\* the directory without its malformed entries
C18_MalformedRecordSkipped ==
    (data_call.fn = "load_all_container_data" /\ data_call.base_dir = Dir("snap")) =>
        /\ data_call.ret.exc = ""
        /\ data_call.ret.val =
               ContainerLoop(SelectSeq(fs["snap"].containers.entries,
                                       LAMBDA f : ~Malformed(f)), <<>>).val

\* both annotations of the inspection record are 'disable'
BothDisabled(raw_data) ==
    LET annotations == GetPath(raw_data, <<"info", "runtimeSpec", "annotations">>).val
    IN  /\ annotations.t = "dict"
        /\ DictHas(annotations.d, "irq-load-balancing.crio.io")
        /\ DictGet(annotations.d, "irq-load-balancing.crio.io", JNull) = JStr(StrDisable)
        /\ DictHas(annotations.d, "cpu-quota.crio.io")
        /\ DictGet(annotations.d, "cpu-quota.crio.io", JNull) = JStr(StrDisable)

\* the containers of the source of the last call
Registry == DictGet(container_cache, data_call.base_dir, <<>>)

\* the containers of the registry that have both annotations
Isolated == SelectSeq(Registry, LAMBDA item : BothDisabled(item[2].raw_data))

\* C19: is_isolated is true exactly for the containers with both annotations
\* 'disable'; get_isolated_containers returns these containers and
\* get_isolated_cpus the union of their CPUs
C19_IsolatedIffBothDisabled ==
    data_call.ret.exc = "" =>
        /\ data_call.fn = "load_all_container_data" =>
               \A i \in 1..Len(data_call.ret.val) :
                   data_call.ret.val[i][2].is_isolated
                       = BothDisabled(data_call.ret.val[i][2].raw_data)
        /\ data_call.fn = "get_isolated_containers" => data_call.ret.val = Isolated
        /\ data_call.fn = "get_isolated_cpus" =>
               data_call.ret.val
                   = Sorted(SetToSeq(UNION {Range(Isolated[i][2].container_cpus) :
                                               i \in 1..Len(Isolated)}))

\* get_isolated_containers leaves out a container with only one of the
\* annotations and returns one with both
C19_Witness ==
    /\ data_call.fn = "get_isolated_containers" /\ data_call.ret.exc = ""
    /\ Len(data_call.ret.val) = 1 /\ Len(Registry) = 2
    /\ \E i \in 1..2 :
           LET annotations == GetPath(Registry[i][2].raw_data,
                                      <<"info", "runtimeSpec", "annotations">>).val.d
           IN  /\ ~Registry[i][2].is_isolated
               /\ DictGet(annotations, "irq-load-balancing.crio.io", JNull) = JStr(StrDisable)
               /\ ~DictHas(annotations, "cpu-quota.crio.io")

\* C21: get_isolated_cpus returns, in ascending order and each once, exactly the
\* CPUs of the containers of the source whose is_isolated flag is true
C21_IsolatedCpuUnion ==
    (data_call.fn = "get_isolated_cpus" /\ data_call.ret.exc = "") =>
        /\ \A i \in 1..(Len(data_call.ret.val) - 1) :
               data_call.ret.val[i] < data_call.ret.val[i + 1]
        /\ Range(data_call.ret.val)
               = UNION {Range(Registry[i][2].container_cpus) :
                           i \in {j \in 1..Len(Registry) : Registry[j][2].is_isolated}}

\* get_isolated_cpus has returned the CPUs of one isolated container, and the
\* other container of the source, not isolated, has a CPU of its own
C21_Witness ==
    /\ data_call.fn = "get_isolated_cpus" /\ data_call.ret.exc = ""
    /\ Len(Registry) = 2 /\ data_call.ret.val # <<>>
    /\ \E i \in 1..2 :
           /\ ~Registry[i][2].is_isolated /\ Registry[3 - i][2].is_isolated
           /\ Range(Registry[i][2].container_cpus) \ Range(data_call.ret.val) # {}
           /\ Range(Registry[i][2].container_cpus) \cap Range(data_call.ret.val) # {}

\* the step is a call of one of the functions fns
StepOf(fns) == data_call' # data_call /\ data_call'.fn \in fns

\* C24: a step of load_all_container_data leaves the NUMA and LLC caches as
\* they are, a step of get_numa_topology the container cache, its flag and the
\* LLC cache, a step of get_llc_topology the container cache, its flag and the
\* NUMA cache; get_isolated_containers and get_isolated_cpus leave the caches as
\* the call of load_all_container_data with the same source leaves them
C24_OneWriterPerCache ==
    [][/\ StepOf({"load_all_container_data", "get_isolated_containers", "get_isolated_cpus"})
           => UNCHANGED <<numa_topology_cache, llc_topology_cache>>
       /\ StepOf({"get_numa_topology"})
           => UNCHANGED <<container_cache, cache_initialized, llc_topology_cache>>
       /\ StepOf({"get_llc_topology"})
           => UNCHANGED <<container_cache, cache_initialized, numa_topology_cache>>
       /\ StepOf({"get_isolated_containers", "get_isolated_cpus"})
           => <<container_cache', cache_initialized'>>
                  = load_all_container_data(<<container_cache, cache_initialized>>, fs,
                                            data_call'.base_dir).cache]_vars

\* each provider has filled its cache, the last one while the caches of the other
\* two held entries
C24_Witness ==
    /\ data_call.fn \in {"get_llc_topology", "get_isolated_cpus"} /\ ~data_call.hit
    /\ container_cache # <<>> /\ numa_topology_cache # <<>> /\ llc_topology_cache # <<>>

(***************************************************************************)
(* The topology providers on partial data (shared_data.py)                 *)
(***************************************************************************)
\* the CPUs a well-formed list file names
ListedCpus(text) ==
    IF text = <<"4", "\n">> THEN <<4>> ELSE <<0, 1>>

\* the list file can be read and is a CPU list
GoodListFile(file) == file.state = "ok" /\ file.text \in {<<"0", "-", "1", "\n">>, <<"4", "\n">>, <<"0", ",", "1", "\n">>}

\* the number in the name of a node or cpu directory
DirNumber(name, prefix) ==
    CHOOSE k \in 0..(MaxNodeDirs + MaxCpuDirs) : name = prefix \o IntToStr(k)

\* the entries of a directory whose list file is well-formed
GoodEntries(dir) == {i \in 1..Len(dir.entries) : GoodListFile(dir.entries[i].file)}

\* the tree the last call read
TreeRead == fs[RootOf(data_call.base_dir)]

\* the last step called fn on the host or on the snapshot "snap"
TopoCall(fn) == data_call.fn = fn /\ data_call.base_dir # Dir("live")

\* numa_info has exactly the nodes with a well-formed cpulist, each with its CPUs
NodesFromFiles(node, numa_info) ==
    /\ DictKeys(numa_info) = {DirNumber(node.entries[i].name, StrNode) : i \in GoodEntries(node)}
    /\ \A i \in GoodEntries(node) :
           DictGet(numa_info, DirNumber(node.entries[i].name, StrNode), [cpus |-> <<>>]).cpus
               = ListedCpus(node.entries[i].file.text)

\* the blocks a cpuinfo table was written from
TablesOf(cpuinfo) ==
    UNION {{blocks \in [1..n -> Blocks] : cpuinfo = FileText(CpuinfoTable(blocks, 1))} :
           n \in 0..MaxBlocks}

\* the socket a block declares by a parsable 'physical id' line
DeclaresSocket(block) == block.socket \in {<<"0">>, <<"1">>}

SocketOf(block) == IF block.socket = <<"0">> THEN 0 ELSE 1

\* the nodes of numa_info that hold the CPU
NodesWith(numa_info, cpu) ==
    {numa_info[i][1] : i \in {j \in 1..Len(numa_info) : cpu \in Range(numa_info[j][2].cpus)}}

\* every well-formed block of the table is in the node of its socket
BlocksPlaced(blocks, numa_info) ==
    \A i \in 1..Len(blocks) :
        (~blocks[i].bad /\ DeclaresSocket(blocks[i])) =>
            SocketOf(blocks[i]) \in NodesWith(numa_info, i - 1)

\* C25: the NUMA and LLC topology providers never raise on partial data; an
\* absent topology directory gives an empty map, and a node, a CPU or a cpuinfo
\* block whose file or lines are missing, unreadable or unparsable is omitted
\* alone: every other node or CPU is in the result.
C25_PartialDataTolerated ==
    /\ (TopoCall("get_numa_topology") \/ TopoCall("get_llc_topology")) =>
           data_call.ret.exc = ""
    /\ (TopoCall("get_numa_topology")
        /\ (~IsSnapshot(data_call.base_dir) \/ GoodEntries(TreeRead.node) # {})) =>
           NodesFromFiles(TreeRead.node, data_call.ret.val)
    /\ (TopoCall("get_numa_topology") /\ IsSnapshot(data_call.base_dir)
        /\ GoodEntries(TreeRead.node) = {}) =>
           /\ TreeRead.cpuinfo.state # "ok" => data_call.ret.val = <<>>
           /\ \A blocks \in TablesOf(TreeRead.cpuinfo) :
                  BlocksPlaced(blocks, data_call.ret.val)
    /\ (TopoCall("get_llc_topology") /\ data_call.ret.exc = "") =>
           DictKeys(data_call.ret.val[2])
               = {DirNumber(TreeRead.cpu.entries[i].name, StrCpu) : i \in GoodEntries(TreeRead.cpu)}

\* C26: for a snapshot, get_numa_topology uses the cpuinfo fallback if and only
\* if the per-node cpulist files yield no node; with the fallback, a CPU block
\* declaring socket p is in pseudo-node p and in no other node, and a CPU block
\* declaring no socket is in no node.
C26_FallbackBySocket ==
    (TopoCall("get_numa_topology") /\ IsSnapshot(data_call.base_dir)) =>
        /\ GoodEntries(TreeRead.node) # {} =>
               NodesFromFiles(TreeRead.node, data_call.ret.val)
        /\ GoodEntries(TreeRead.node) = {} =>
               /\ data_call.ret.val = get_numa_topology_from_cpuinfo(TreeRead.cpuinfo)
               /\ \A blocks \in TablesOf(TreeRead.cpuinfo) :
                      \A i \in 1..Len(blocks) :
                          /\ (~blocks[i].bad /\ DeclaresSocket(blocks[i])) =>
                                 NodesWith(data_call.ret.val, i - 1) = {SocketOf(blocks[i])}
                          /\ (~blocks[i].bad /\ blocks[i].socket = <<>>) =>
                                 NodesWith(data_call.ret.val, i - 1) = {}

\* the entries of the cpu directory whose CPU is in cpu_to_llc
Placed(cpu, to_llc) ==
    {i \in 1..Len(cpu.entries) : DictHas(to_llc, DirNumber(cpu.entries[i].name, StrCpu))}

\* the domain of the CPU of entry i
DomainOf(cpu, to_llc, i) == DictGet(to_llc, DirNumber(cpu.entries[i].name, StrCpu), -1)

\* the first entry in the scan with the text of entry i
FirstWith(cpu, placed, i) ==
    CHOOSE k \in placed :
        /\ cpu.entries[k].file.text = cpu.entries[i].file.text
        /\ \A j \in placed : cpu.entries[j].file.text = cpu.entries[i].file.text => k <= j

\* the distinct texts seen before entry k
TextsBefore(cpu, placed, k) == {cpu.entries[j].file.text : j \in {h \in placed : h < k}}

ListedInVerdict ==
    Range(alignment_results.aligned_cpus) \cup Range(alignment_results.misaligned_cpus)

\* C28 as stated: in every verdict of check_llc_alignment aligned_cpus and
\* misaligned_cpus are disjoint, every CPU in either has a resolved LLC domain,
\* and with status 'aligned' or 'misaligned' the two lists together are exactly
\* the container CPUs with a resolved domain.
C28_ListsResolvedAnyStatus ==
    llc_pc = "checked" =>
        /\ Range(alignment_results.aligned_cpus)
               \cap Range(alignment_results.misaligned_cpus) = {}
        /\ ListedInVerdict \subseteq ResolvedCpus
        /\ alignment_results.alignment_status \in {"aligned", "misaligned"} =>
               ListedInVerdict = ResolvedCpus

\* C28 amended: aligned_cpus and misaligned_cpus are disjoint; with status
\* 'misaligned' the two lists together are exactly the container CPUs with a
\* resolved LLC domain; with status 'aligned' aligned_cpus is every container
\* CPU, resolved or not, and misaligned_cpus is empty; with any other status
\* both lists are empty.
C28_ListsResolved ==
    llc_pc = "checked" =>
        /\ Range(alignment_results.aligned_cpus)
               \cap Range(alignment_results.misaligned_cpus) = {}
        /\ alignment_results.alignment_status = "misaligned" =>
               ListedInVerdict = ResolvedCpus
        /\ alignment_results.alignment_status = "aligned" =>
               /\ Range(alignment_results.aligned_cpus) = Range(container_cpus)
               /\ alignment_results.misaligned_cpus = <<>>
        /\ alignment_results.alignment_status \notin {"aligned", "misaligned"} =>
               ListedInVerdict = {}

\* a container on two LLC nodes with a CPU that has no LLC node
C28_Witness ==
    /\ llc_pc = "checked"
    /\ alignment_results.alignment_status = "misaligned"
    /\ alignment_results.aligned_cpus # <<>>
    /\ Range(container_cpus) \ ResolvedCpus # {}

(***************************************************************************)
(* The PCI listing fallback (numa_analyzer.py)                             *)
(***************************************************************************)
\* the blocks of the listing for the requested address
BlocksOf(address) ==
    {i \in 1..Len(lspci_blocks) : DeviceAddress(i) = ShortPci(address)}

\* C23: get_pci_numa_info_from_lspci returns node n if and only if the block of
\* the requested address has a 'NUMA node' line with value n >= 0: never the
\* node of another device's block, and attribute lines before the NUMA line of
\* the requested block do not make it miss that line.
C23_NodeOfOwnBlock ==
    (lspci_pc = "scanned" /\ lspci_file.state = "ok") =>
        \A n \in 0..1 :
            (lspci_numa_node = SomeInt(n))
            <=> (\E i \in BlocksOf(pci_address) : lspci_blocks[i].numa = n)

(***************************************************************************)
(* The container analysis and the namespace validation (numa_analyzer.py)  *)
(***************************************************************************)
\* the numa_alignment verdict of a container analysis, or what it raised
VerdictOf(result) ==
    IF result.exc # "" THEN <<result.exc>>
    ELSE <<result.val.analysis_skipped, result.val.skip_reason,
           result.val.numa_alignment.alignment_status,
           result.val.numa_alignment.aligned_devices,
           result.val.numa_alignment.misaligned_devices,
           result.val.numa_alignment.errors>>

\* the analysis of the same container with another namespace and validation source
WithNetns(netns_id, source) ==
    analyze_container_numa_alignment([analysis_dir.entries[1] EXCEPT !.netns_id = netns_id],
                                     source, analysis_topology, analysis_pci_files)

\* C22: two runs of analyze_container_numa_alignment on the same container,
\* topology and PCI NUMA data that differ only in the outcome of the namespace
\* validation (found, not found, listing missing, command failure, no
\* namespace) give the same numa_alignment verdict.
C22_NetnsAdvisory ==
    (analysis_pc = "analyzed" /\ analysis_run = "container") =>
        \A netns_id \in {<<>>, StrNs}, source \in NetnsSources :
            VerdictOf(WithNetns(netns_id, source)) = VerdictOf(analysis_results)

\* an aligned container whose second device the namespace listing does not name
C22_Witness ==
    /\ analysis_pc = "analyzed" /\ analysis_run = "container"
    /\ analysis_results.exc = ""
    /\ analysis_results.val.numa_alignment.alignment_status = "aligned"
    /\ analysis_results.val.numa_alignment.aligned_devices = <<"a", "b">>
    /\ DictGet(analysis_results.val.netns_validation, "a", NetnsEntry(FALSE, "")).found_in_netns
    /\ ~DictGet(analysis_results.val.netns_validation, "b", NetnsEntry(TRUE, "")).found_in_netns

(***************************************************************************)
(* The summaries of analyze_all_containers                                 *)
(***************************************************************************)
\* the fourth counter of the summary of the run
CountedName == IF analysis_run = "numa" THEN "containers_with_pci" ELSE "containers_analyzed"

\* C29: in the summary of analyze_all_containers isolated_containers is at most
\* total_containers, 'containers' has at most total_containers entries, and
\* aligned_containers + misaligned_containers + containers_with_errors is
\* containers_analyzed (LLC) or containers_with_pci (NUMA).
C29_SummaryCounters ==
    (analysis_pc = "analyzed" /\ analysis_run \in {"numa", "llc"} /\ analysis_results.exc = "") =>
        /\ analysis_results.val.summary["isolated_containers"]
               <= analysis_results.val.summary["total_containers"]
        /\ Len(analysis_results.val.containers)
               <= analysis_results.val.summary["total_containers"]
        /\ analysis_results.val.summary["aligned_containers"]
               + analysis_results.val.summary["misaligned_containers"]
               + analysis_results.val.summary["containers_with_errors"]
               = analysis_results.val.summary[CountedName]

\* the live host with two containers: one cannot be inspected, one is aligned
C29_Witness ==
    /\ analysis_pc = "analyzed" /\ analysis_run = "llc" /\ analysis_live
    /\ analysis_results.exc = ""
    /\ analysis_results.val.summary["total_containers"] = 2
    /\ Len(analysis_results.val.containers) = 1
    /\ analysis_results.val.summary["aligned_containers"] = 1

(***************************************************************************)
(* The summary of the IRQ report                                           *)
(***************************************************************************)
\* the colour get_irq_color_code gives the IRQs of a summary class
ClassColour(class) ==
    IF class = "zero" THEN "green" ELSE IF class = "warning" THEN "yellow" ELSE "red"

\* the violation details of the results: <<entry, position>> pairs
DetailsOf(results) ==
    {ik \in (1..Len(results)) \X (1..MaxIrqs) :
        ik[2] <= Len(results[ik[1]][2].violation_details)}

\* how many violation details of the results have the colour
Coloured(results, colour) ==
    Cardinality({ik \in DetailsOf(results) :
                    results[ik[1]][2].violation_details[ik[2]].color_name = colour})

\* C30: the class the summary of main counts for a violation detail agrees with
\* the colour analyze_irq_violations stored in it (zero/green, warning/yellow,
\* critical/red), an unknown rate included, and the three totals add up to the
\* total number of violations.
C30_ClassAgreesWithColour ==
    irq_pc = "summarized" =>
        /\ \A ik \in DetailsOf(irq_results) :
               LET detail == irq_results[ik[1]][2].violation_details[ik[2]]
               IN  ClassColour(SeverityClass(detail)) = detail.color_name
        /\ irq_summary.total_zero_irqs = Coloured(irq_results, "green")
        /\ irq_summary.total_warning_irqs = Coloured(irq_results, "yellow")
        /\ irq_summary.total_critical_irqs = Coloured(irq_results, "red")
        /\ irq_summary.total_critical_irqs + irq_summary.total_warning_irqs
               + irq_summary.total_zero_irqs = irq_summary.total_violations

\* a report without uptime: an IRQ that fired is a warning, one that did not is zero
C30_Witness ==
    /\ irq_pc = "summarized"
    /\ irq_uptime_file = NoFile
    /\ irq_summary.total_warning_irqs >= 1
    /\ irq_summary.total_zero_irqs >= 1
    /\ irq_summary.total_critical_irqs = 0
    /\ irq_summary.total_violations >= 2

(***************************************************************************)
(* Specifications: one per component, the other components idle.          *)
(***************************************************************************)
CodecStart ==
    CodecInit /\ SevIdle /\ IrqIdle /\ LlcIdle /\ NumaIdle /\ PciIdle /\ DataIdle /\ LspciIdle
    /\ AnalysisIdle /\ SummaryIdle

SpecCodec == CodecStart /\ [][CodecNext]_vars

SevStart ==
    SevInit /\ CodecIdle /\ IrqIdle /\ LlcIdle /\ NumaIdle /\ PciIdle /\ DataIdle /\ LspciIdle
    /\ AnalysisIdle /\ SummaryIdle

SpecSeverity == SevStart /\ [][SevNext]_vars

IrqMapStart ==
    IrqMapInit /\ CodecIdle /\ SevIdle /\ LlcIdle /\ NumaIdle /\ PciIdle /\ DataIdle /\ LspciIdle
    /\ AnalysisIdle /\ SummaryIdle

\* build_irq_to_cpu_mapping over every IRQ directory
SpecIrqMap == IrqMapStart /\ [][BuildIrqToCpuMapping]_vars

IrqTableStart ==
    IrqTableInit /\ CodecIdle /\ SevIdle /\ LlcIdle /\ NumaIdle /\ PciIdle /\ DataIdle /\ LspciIdle
    /\ AnalysisIdle /\ SummaryIdle

\* parse_proc_interrupts over every interrupt table
SpecInterrupts == IrqTableStart /\ [][ParseProcInterrupts]_vars

IrqRunStart ==
    IrqRunInit /\ CodecIdle /\ SevIdle /\ LlcIdle /\ NumaIdle /\ PciIdle /\ DataIdle /\ LspciIdle
    /\ AnalysisIdle /\ SummaryIdle

\* analyze_irq_violations over the analysis runs
SpecIrq == IrqRunStart /\ [][AnalyzeIrqViolations]_vars

LlcStart ==
    LlcInit /\ CodecIdle /\ SevIdle /\ IrqIdle /\ NumaIdle /\ PciIdle /\ DataIdle /\ LspciIdle
    /\ AnalysisIdle /\ SummaryIdle

\* check_llc_alignment over container CPU lists and topologies
SpecLlc == LlcStart /\ [][LlcNext]_vars

NumaStart ==
    NumaInit /\ CodecIdle /\ SevIdle /\ IrqIdle /\ LlcIdle /\ PciIdle /\ DataIdle /\ LspciIdle
    /\ AnalysisIdle /\ SummaryIdle

\* check_numa_alignment over container CPU lists, device lists and topologies
SpecNuma == NumaStart /\ [][NumaNext]_vars

EnginesStart == LlcStart \/ NumaStart

EnginesNext == LlcNext \/ NumaNext

\* the two alignment engines
SpecEngines == EnginesStart /\ [][EnginesNext]_vars

PciStart ==
    PciInit /\ CodecIdle /\ SevIdle /\ IrqIdle /\ LlcIdle /\ NumaIdle /\ DataIdle /\ LspciIdle
    /\ AnalysisIdle /\ SummaryIdle

\* extract_pci_devices_from_container over inspection records
SpecPci == PciStart /\ [][ExtractPciDevices]_vars

LoadStart ==
    LoadInit /\ CodecIdle /\ SevIdle /\ IrqIdle /\ LlcIdle /\ NumaIdle /\ PciIdle /\ LspciIdle
    /\ AnalysisIdle /\ SummaryIdle

\* the container registry over every containers directory
SpecLoad == LoadStart /\ [][LoadNext]_vars

CacheStart ==
    CacheInit /\ CodecIdle /\ SevIdle /\ IrqIdle /\ LlcIdle /\ NumaIdle /\ PciIdle /\ LspciIdle
    /\ AnalysisIdle /\ SummaryIdle

\* the cached providers, clear_cache and changing snapshot data
SpecCache == CacheStart /\ [][CacheNext]_vars

TopoStart ==
    TopoInit /\ CodecIdle /\ SevIdle /\ IrqIdle /\ LlcIdle /\ NumaIdle /\ PciIdle /\ LspciIdle
    /\ AnalysisIdle /\ SummaryIdle

\* the topology providers over every topology input
SpecTopo == TopoStart /\ [][TopoNext]_vars

DataStart ==
    DataInit /\ CodecIdle /\ SevIdle /\ IrqIdle /\ LlcIdle /\ NumaIdle /\ PciIdle /\ LspciIdle
    /\ AnalysisIdle /\ SummaryIdle

\* the cached providers together with the functions built on them
SpecData == DataStart /\ [][DataNext]_vars

LspciStart ==
    LspciInit /\ CodecIdle /\ SevIdle /\ IrqIdle /\ LlcIdle /\ NumaIdle /\ PciIdle /\ DataIdle
    /\ AnalysisIdle /\ SummaryIdle

\* get_pci_numa_info_from_lspci over every listing
SpecLspci == LspciStart /\ [][GetPciNumaInfoFromLspci]_vars

AnalysisStart ==
    AnalysisInit /\ CodecIdle /\ SevIdle /\ IrqIdle /\ LlcIdle /\ NumaIdle /\ PciIdle /\ DataIdle
    /\ LspciIdle /\ SummaryIdle

\* the container analyses and analyze_all_containers of both analyzers
SpecAnalysis == AnalysisStart /\ [][AnalysisNext]_vars

ReportStart ==
    IrqReportInit /\ CodecIdle /\ SevIdle /\ LlcIdle /\ NumaIdle /\ PciIdle /\ DataIdle /\ LspciIdle
    /\ AnalysisIdle

\* main of the IRQ analyzer: analyze_irq_violations, then the summary
SpecReport == ReportStart /\ [][ReportNext]_vars

Init ==
    CodecStart \/ SevStart \/ IrqMapStart \/ IrqTableStart \/ IrqRunStart \/ LlcStart
    \/ NumaStart \/ PciStart \/ LoadStart \/ CacheStart \/ DataStart \/ TopoStart
    \/ LspciStart \/ AnalysisStart \/ ReportStart

Next ==
    CodecNext \/ SevNext \/ IrqNext \/ LlcNext \/ NumaNext \/ ExtractPciDevices
    \/ LoadNext \/ GetNumaTopology \/ GetLlcTopology \/ ClearCache \/ WriteSnapshot
    \/ GetPciNumaInfoFromLspci \/ AnalysisNext \/ Main

Spec == Init /\ [][Next]_vars

====
